---- MODULE Spec2Model ----
(***************************************************************************)
(* Verification model of webhook-relay.                                    *)
(*                                                                         *)
(* Variant A (embedded queue): the redb-backed RelayStore (src/src/store.rs)*)
(* with its four tables, the ingress handlers, the forward worker and the  *)
(* admin replay of src/src/main.rs.                                        *)
(* The in-memory IdempotencyStore (src/src/idempotency.rs) is modelled     *)
(* side by side with RelayStore::enqueue_pending_event.                    *)
(* The outcome classification of forward_once is modelled for the embedded *)
(* worker and for the consumer-side forwarder.                             *)
(***************************************************************************)
EXTENDS Naturals, Integers, FiniteSets, Sequences, TLC

(***************************************************************************)
(* Bounds of the model.                                                    *)
(***************************************************************************)
\* number of events the ingress may enqueue (fresh event ids 1..MaxEvents)
MaxEvents == 2
\* clock horizon (seconds): deliveries and admin replays arrive up to it and
\* the clock ticks freely up to it; afterwards the worker drains the queue
MaxTime == 2
\* number of admin replays
MaxReplays == 1
\* largest configured forward_max_attempts explored (0..MaxAttemptsCfg)
MaxAttemptsCfg == 3
\* number of IdempotencyStore / enqueue calls in the side-by-side run
MaxCalls == 3
\* clock horizon of the side-by-side run
MaxCallTime == 3
\* webhook requests handled, rejected ones included
MaxHooks == 2
\* seconds the clock may advance between two reads within one handler
ClockSkew == 1
\* messages in the partition the consumer reads
MaxMessages == 3
\* largest configured CONSUMER_MAX_RETRIES explored (0..MaxRetriesCfg)
MaxRetriesCfg == 2

(***************************************************************************)
(* Configuration values read by Config::from_env, in seconds, drawn small  *)
(* enough for the clock horizon to cover an expiry and a backoff.          *)
(***************************************************************************)
dedup_retention_seconds == 2
github_cooldown_seconds == 2
linear_cooldown_seconds == 2
forward_initial_backoff_seconds == 2
forward_max_backoff_seconds == 3

\* the route that receives deliveries; linear_hook builds its event and
\* calls the store as github_hook does, with keys of its own prefix
Sources == {"github"}
Deliveries == {"a", "b"}
EventIds == 1..MaxEvents

NoEvent == [event_id |-> 0]
EmptyTable == [x \in {} |-> 0]

Min(a, b) == IF a <= b THEN a ELSE b
Max(a, b) == IF a >= b THEN a ELSE b
MinOfSet(S) == CHOOSE x \in S : \A y \in S : x <= y

\* table.insert(key, value)
Put(table, key, value) ==
    [x \in (DOMAIN table) \cup {key} |-> IF x = key THEN value ELSE table[x]]

\* table.remove(key)
Remove(table, key) == [x \in (DOMAIN table) \ {key} |-> table[x]]

VARIABLES
    \* ---- variant A: RelayStore tables (persisted) ----
    pending_events,     \* PENDING_EVENTS_TABLE: event_id -> PendingEvent
    dlq_events,         \* DLQ_EVENTS_TABLE: event_id -> DlqEvent
    dedup_index,        \* DEDUP_INDEX_TABLE: dedup key -> expiry
    cooldown_index,     \* COOLDOWN_INDEX_TABLE: cooldown key -> expiry
    \* ---- variant A: process state ----
    now,                \* epoch_seconds()
    forward_max_attempts, \* Config.forward_max_attempts
    worker_pc,          \* position of worker_loop: "wait", "pop", "process"
    inflight,           \* the event popped by the worker, NoEvent if none
    forwarded_total,    \* Metrics.forwarded_total, by source
    dropped_total,      \* Metrics.dropped_total, by <<source, reason>>
    \* ---- history of variant A (not program state) ----
    next_event_id,      \* the next fresh event id (Uuid::new_v4)
    delivered,          \* ids forwarded successfully (2xx)
    hist,               \* per Enqueued id: history since enqueue / last replay
    replays,            \* number of admin replays so far
    \* ---- IdempotencyStore side by side with RelayStore ----
    dedup_expirations,    \* IdempotencyStore.dedup_expirations
    cooldown_expirations, \* IdempotencyStore.cooldown_expirations
    side_dedup_index,     \* dedup index of the store run side by side
    side_cooldown_index,  \* cooldown index of the store run side by side
    side_pending,         \* pending table of the store run side by side
    call,                 \* the last call: inputs, both results, history before it
    calls,                \* number of calls so far
    passes,               \* per store and dedup key: time of the last call past the dedup stage
    admits,               \* per store and cooldown key: times of the admitted calls
    monotone,             \* the calls so far had non-decreasing `now`
    cooled,               \* history, per store: the dedup keys whose last call past the dedup stage returned Cooldown
    prev_cooled,          \* history, per store: whether the key of the last call was in cooled before the call
    threads,              \* concurrent calls of check: thread -> its arguments, its position and its result
    locks,                \* history: whether the locks of the dedup and the cooldown map could be acquired by the last call of check
    aligned,              \* the calls so far were made on both stores
    \* ---- forward_once classification ----
    gateway,              \* the gateway outcome being classified
    outcome_embedded,     \* src/src/main.rs forward_once
    outcome_consumer,     \* kafka-openclaw-hook Forwarder::forward_once
    \* ---- kafka-openclaw-hook consumer ----
    kc_max_retries,       \* ForwarderConfig.max_retries
    kc_pc,                \* position of KafkaConsumer::run / process_message
    kc_offset,            \* offset of the message received next / being processed
    kc_attempt,           \* attempt of forward_with_retry
    kc_committed,         \* committed position of the partition (offsets below it are committed)
    kc_forwarded,         \* offsets whose envelope the gateway accepted
    kc_forwards,          \* offset -> forward attempts made for the message
    kc_dlq_topic,         \* offset -> error of the DlqEnvelope published for it
    kc_commit_calls,      \* offsets passed to commit_message
    kc_errors,             \* offset -> error returned by process_message
    \* ---- history of the webhook handlers (not program state) ----
    last_hook,            \* the last webhook request: what it carried and how it was answered
    enqueued,              \* event_id -> dedup key and time of the enqueue, for Enqueued results
    admin_token,          \* Config.admin_token: WEBHOOK_ADMIN_TOKEN, None if unset or blank
    last_admin,           \* history: the last request to an admin route and its answer
    \* ---- shutdown channel and GET /ready ----
    shutdown,             \* value of the shutdown watch channel
    last_ready,           \* the last answer of GET /ready, with what held when it was given
    at_shutdown,          \* history: the time of the shutdown signal and the events due then
    \* ---- SourceRateLimiter (src/src/middleware.rs) ----
    limit_per_minute,     \* SourceRateLimiter.limit_per_minute
    windows,              \* source -> SourceRateWindow
    last_allow,           \* history: the last call of allow and its result
    allowed_in,           \* history: (source, minute of the call) -> calls that returned true
    ordered,               \* history: no call carried a time before the previous call or before the epoch
    \* ---- functions without state ----
    fn_args,              \* the arguments of the function under study
    fn_result,             \* what it returned for them
    \* ---- KafkaPublisher and run_publish_worker (src/src/producer.rs) ----
    max_retries,          \* KafkaPublisher.max_retries
    backoff_base_ms,      \* KafkaPublisher.backoff_base_ms
    backoff_max_ms,       \* KafkaPublisher.backoff_max_ms
    pub_pc,               \* position of run_publish_worker: recv, or send inside publish
    pub_job,              \* number of the job received last
    attempt,              \* local attempt of publish
    slept,                \* history: the backoffs slept in the publish under way, in order
    published,            \* history: job -> how publish returned and after how many failed sends
    logged                \* history: jobs whose error the worker logged

relay_vars == <<pending_events, dlq_events, dedup_index, cooldown_index, now,
                forward_max_attempts, worker_pc, inflight, forwarded_total,
                dropped_total, next_event_id, delivered, hist, replays>>
idem_vars == <<dedup_expirations, cooldown_expirations, side_dedup_index,
               side_cooldown_index, side_pending, call, calls, passes, admits,
               monotone, aligned,
               cooled, prev_cooled,
               threads,
               locks>>
classify_vars == <<gateway, outcome_embedded, outcome_consumer>>
consumer_vars == <<kc_max_retries, kc_pc, kc_offset, kc_attempt, kc_committed,
                   kc_forwarded, kc_forwards, kc_dlq_topic, kc_commit_calls,
                   kc_errors>>
hook_vars == <<last_hook, enqueued,
               admin_token, last_admin>>
ready_vars == <<shutdown, last_ready, at_shutdown>>
limiter_vars == <<limit_per_minute, windows, last_allow, allowed_in, ordered>>
pure_vars == <<fn_args, fn_result>>
publisher_vars == <<max_retries, backoff_base_ms, backoff_max_ms, pub_pc, pub_job,
                    attempt, slept, published, logged>>
vars == <<relay_vars, idem_vars, classify_vars, consumer_vars, hook_vars, ready_vars,
          limiter_vars, pure_vars, publisher_vars>>

(***************************************************************************)
(* RelayStore (src/src/store.rs).  Every operation is one write            *)
(* transaction; an operator returns the tables after the commit.           *)
(***************************************************************************)

\* Faulty variant of enqueue_pending_event: a call rejected with Cooldown
\* starts the cooldown window again.
enqueue_pending_event_CooldownExtends(event, dedup_secs, cooldown_secs, now_epoch, dedup, cooldown, pending) ==
    IF event.dedup_key \in DOMAIN dedup /\ dedup[event.dedup_key] > now_epoch
    THEN [result |-> "Duplicate", dedup |-> dedup, cooldown |-> cooldown,
          pending |-> pending]
    ELSE LET dedup2 == Put(dedup, event.dedup_key, now_epoch + dedup_secs)
             cooldown_hit == /\ event.cooldown_key \in DOMAIN cooldown
                             /\ cooldown[event.cooldown_key] > now_epoch
             cooldown2 == Put(cooldown, event.cooldown_key,
                              now_epoch + cooldown_secs)
         IN  IF cooldown_hit
             THEN [result |-> "Cooldown", dedup |-> dedup2, cooldown |-> cooldown2,
                   pending |-> pending]
             ELSE [result |-> "Enqueued", dedup |-> dedup2, cooldown |-> cooldown2,
                   pending |-> Put(pending, event.event_id, event)]

\* Faulty variant of enqueue_pending_event: the dedup entry is taken as
\* expired one second early.
enqueue_pending_event_EarlyExpiry(event, dedup_secs, cooldown_secs, now_epoch, dedup, cooldown, pending) ==
    IF event.dedup_key \in DOMAIN dedup /\ dedup[event.dedup_key] > now_epoch + 1
    THEN [result |-> "Duplicate", dedup |-> dedup, cooldown |-> cooldown,
          pending |-> pending]
    ELSE LET dedup2 == Put(dedup, event.dedup_key, now_epoch + dedup_secs)
             cooldown_hit == /\ event.cooldown_key \in DOMAIN cooldown
                             /\ cooldown[event.cooldown_key] > now_epoch
         IN  IF cooldown_hit
             THEN [result |-> "Cooldown", dedup |-> dedup2, cooldown |-> cooldown,
                   pending |-> pending]
             ELSE [result |-> "Enqueued", dedup |-> dedup2,
                   cooldown |-> Put(cooldown, event.cooldown_key,
                                    now_epoch + cooldown_secs),
                   pending |-> Put(pending, event.event_id, event)]

\* Faulty variant of enqueue_pending_event: a Cooldown returns before the
\* commit, so the dedup key is not recorded.
enqueue_pending_event_CooldownUncommitted(event, dedup_secs, cooldown_secs, now_epoch, dedup, cooldown, pending) ==
    IF event.dedup_key \in DOMAIN dedup /\ dedup[event.dedup_key] > now_epoch
    THEN [result |-> "Duplicate", dedup |-> dedup, cooldown |-> cooldown,
          pending |-> pending]
    ELSE LET dedup2 == Put(dedup, event.dedup_key, now_epoch + dedup_secs)
             cooldown_hit == /\ event.cooldown_key \in DOMAIN cooldown
                             /\ cooldown[event.cooldown_key] > now_epoch
         IN  IF cooldown_hit
             THEN [result |-> "Cooldown", dedup |-> dedup, cooldown |-> cooldown,
                   pending |-> pending]
             ELSE [result |-> "Enqueued", dedup |-> dedup2,
                   cooldown |-> Put(cooldown, event.cooldown_key,
                                    now_epoch + cooldown_secs),
                   pending |-> Put(pending, event.event_id, event)]

\* Faulty variant of enqueue_pending_event: a Duplicate refreshes the
\* expiry of the dedup key.
enqueue_pending_event_DuplicateRefreshes(event, dedup_secs, cooldown_secs, now_epoch, dedup, cooldown, pending) ==
    IF event.dedup_key \in DOMAIN dedup /\ dedup[event.dedup_key] > now_epoch
    THEN [result |-> "Duplicate",
          dedup |-> Put(dedup, event.dedup_key, now_epoch + dedup_secs),
          cooldown |-> cooldown, pending |-> pending]
    ELSE LET dedup2 == Put(dedup, event.dedup_key, now_epoch + dedup_secs)
             cooldown_hit == /\ event.cooldown_key \in DOMAIN cooldown
                             /\ cooldown[event.cooldown_key] > now_epoch
         IN  IF cooldown_hit
             THEN [result |-> "Cooldown", dedup |-> dedup2, cooldown |-> cooldown,
                   pending |-> pending]
             ELSE [result |-> "Enqueued", dedup |-> dedup2,
                   cooldown |-> Put(cooldown, event.cooldown_key,
                                    now_epoch + cooldown_secs),
                   pending |-> Put(pending, event.event_id, event)]

\* enqueue_pending_event: dedup stage, cooldown stage, insert of the row.
\* A Duplicate returns before the commit, so nothing is written.
enqueue_pending_event(event, dedup_secs, cooldown_secs, now_epoch, dedup, cooldown, pending) ==
    IF event.dedup_key \in DOMAIN dedup /\ dedup[event.dedup_key] > now_epoch
    THEN [result |-> "Duplicate", dedup |-> dedup, cooldown |-> cooldown,
          pending |-> pending]
    ELSE LET dedup2 == Put(dedup, event.dedup_key, now_epoch + dedup_secs)
             cooldown_hit == /\ event.cooldown_key \in DOMAIN cooldown
                             /\ cooldown[event.cooldown_key] > now_epoch
         IN  IF cooldown_hit
             THEN [result |-> "Cooldown", dedup |-> dedup2, cooldown |-> cooldown,
                   pending |-> pending]
             ELSE [result |-> "Enqueued", dedup |-> dedup2,
                   cooldown |-> Put(cooldown, event.cooldown_key,
                                    now_epoch + cooldown_secs),
                   pending |-> Put(pending, event.event_id, event)]

\* Faulty variant of pop_scan: a row counts as due one second early.
RECURSIVE pop_scan_EarlyDue(_, _, _, _)
pop_scan_EarlyDue(pending, now_epoch, todo, selected_id) ==
    IF todo = {} THEN selected_id
    ELSE LET event_id == MinOfSet(todo)
             event == pending[event_id]
             next_selected ==
                 IF event.next_retry_at_epoch <= now_epoch + 1
                 THEN IF /\ selected_id # 0
                         /\ event.next_retry_at_epoch
                              >= pending[selected_id].next_retry_at_epoch
                      THEN selected_id
                      ELSE event_id
                 ELSE selected_id
         IN  pop_scan_EarlyDue(pending, now_epoch, todo \ {event_id}, next_selected)

\* The scan of pop_due_event: rows in key order; a due row replaces the
\* current best only if its next_retry_at_epoch is strictly smaller.
RECURSIVE pop_scan(_, _, _, _)
pop_scan(pending, now_epoch, todo, selected_id) ==
    IF todo = {} THEN selected_id
    ELSE LET event_id == MinOfSet(todo)
             event == pending[event_id]
             next_selected ==
                 IF event.next_retry_at_epoch <= now_epoch
                 THEN IF /\ selected_id # 0
                         /\ event.next_retry_at_epoch
                              >= pending[selected_id].next_retry_at_epoch
                      THEN selected_id
                      ELSE event_id
                 ELSE selected_id
         IN  pop_scan(pending, now_epoch, todo \ {event_id}, next_selected)

\* Faulty variant of pop_due_event: the first due row in key order is
\* selected, whatever its next_retry_at_epoch.
pop_due_event_FirstDue(now_epoch, pending) ==
    LET due == {id \in DOMAIN pending : pending[id].next_retry_at_epoch <= now_epoch}
        selected_id == IF due = {} THEN 0 ELSE MinOfSet(due)
    IN  IF selected_id # 0
        THEN [selected |-> selected_id, event |-> pending[selected_id],
              pending |-> Remove(pending, selected_id)]
        ELSE [selected |-> 0, event |-> NoEvent, pending |-> pending]

\* pop_due_event: the selected row is removed in the same transaction;
\* selected 0 stands for None.
pop_due_event(now_epoch, pending) ==
    LET selected_id == pop_scan(pending, now_epoch, DOMAIN pending, 0)
    IN  IF selected_id # 0
        THEN [selected |-> selected_id, event |-> pending[selected_id],
              pending |-> Remove(pending, selected_id)]
        ELSE [selected |-> 0, event |-> NoEvent, pending |-> pending]

\* Faulty variant of requeue_event: the row is not written.
requeue_event_NotWritten(event, pending) == pending

\* requeue_event
requeue_event(event, pending) == Put(pending, event.event_id, event)

\* Faulty variant of move_to_dlq: the row is written with replay_count 1.
move_to_dlq_CountsReplay(event, reason, now_epoch, dlq) ==
    Put(dlq, event.event_id,
        [pending_event |-> event, failure_reason |-> reason,
         failed_at_epoch |-> now_epoch, replay_count |-> 1])

\* Faulty variant of move_to_dlq: the row counts the times the event was
\* put into the DLQ table.
move_to_dlq_CountsAttempts(event, reason, now_epoch, dlq) ==
    Put(dlq, event.event_id,
        [pending_event |-> event, failure_reason |-> reason,
         failed_at_epoch |-> now_epoch, replay_count |-> event.attempts])

\* move_to_dlq
move_to_dlq(event, reason, now_epoch, dlq) ==
    Put(dlq, event.event_id,
        [pending_event |-> event, failure_reason |-> reason,
         failed_at_epoch |-> now_epoch, replay_count |-> 0])

\* Faulty variant of replay_dlq_event: attempts is not reset.
replay_dlq_event_KeepsAttempts(event_id, now_epoch, dlq, pending) ==
    IF event_id \notin DOMAIN dlq
    THEN [replayed |-> FALSE, dlq |-> dlq, pending |-> pending]
    ELSE LET replay_event ==
                 [dlq[event_id].pending_event EXCEPT
                     !.next_retry_at_epoch = now_epoch]
         IN  [replayed |-> TRUE, dlq |-> Remove(dlq, event_id),
              pending |-> Put(pending, event_id, replay_event)]

\* replay_dlq_event: replay_count is incremented on the deserialized copy
\* of the row, of which only pending_event is written anywhere
replay_dlq_event(event_id, now_epoch, dlq, pending) ==
    IF event_id \notin DOMAIN dlq
    THEN [replayed |-> FALSE, dlq |-> dlq, pending |-> pending]
    ELSE LET dlq_event == [dlq[event_id] EXCEPT !.replay_count = @ + 1]
             replay_event ==
                 [dlq_event.pending_event EXCEPT
                     !.attempts = 0, !.next_retry_at_epoch = now_epoch]
         IN  [replayed |-> TRUE, dlq |-> Remove(dlq, event_id),
              pending |-> Put(pending, event_id, replay_event)]

pending_count(pending) == Cardinality(DOMAIN pending)
dlq_count(dlq) == Cardinality(DOMAIN dlq)

(***************************************************************************)
(* forward_once: classification of the gateway's answer.                   *)
(* An answer is an HTTP status, or a transport error with the three        *)
(* predicates of reqwest::Error the code looks at.                         *)
(***************************************************************************)
StatusCodes == 100..999
Status(code) == [kind |-> "status", code |-> code]
TransportError(connect, timeout, request) ==
    [kind |-> "error", is_connect |-> connect, is_timeout |-> timeout,
     is_request |-> request]
GatewayAnswers ==
    {Status(c) : c \in StatusCodes}
    \cup {TransportError(c, t, r) : c \in BOOLEAN, t \in BOOLEAN, r \in BOOLEAN}

is_success(code) == code >= 200 /\ code < 300
is_server_error(code) == code >= 500 /\ code < 600

\* Faulty variant of forward_once: 429 is not singled out among the 4xx.
forward_once_No429(answer) ==
    IF answer.kind = "error"
    THEN IF answer.is_connect \/ answer.is_timeout \/ answer.is_request
         THEN "Transient"
         ELSE "Permanent"
    ELSE IF is_success(answer.code) THEN "Success"
    ELSE IF is_server_error(answer.code) THEN "Transient"
    ELSE "Permanent"

\* src/src/main.rs forward_once, from request.send() on
forward_once(answer) ==
    IF answer.kind = "error"
    THEN IF answer.is_connect \/ answer.is_timeout \/ answer.is_request
         THEN "Transient"
         ELSE "Permanent"
    ELSE IF is_success(answer.code) THEN "Success"
    ELSE IF is_server_error(answer.code) \/ answer.code = 429 THEN "Transient"
    ELSE "Permanent"

\* kafka-openclaw-hook Forwarder::forward_once, from send() on
Forwarder_forward_once(answer) ==
    IF answer.kind = "error"
    THEN IF answer.is_timeout \/ answer.is_connect \/ answer.is_request
         THEN "Retryable"
         ELSE "Permanent"
    ELSE IF is_success(answer.code) THEN "Ok"
    ELSE IF is_server_error(answer.code) \/ answer.code = 429 THEN "Retryable"
    ELSE "Permanent"

(***************************************************************************)
(* Helpers of src/src/main.rs.                                             *)
(***************************************************************************)
RECURSIVE Pow2(_)
Pow2(n) == IF n = 0 THEN 1 ELSE 2 * Pow2(n - 1)

\* u64 arithmetic: the width of the word and the largest exponent of the
\* backoff functions (64 and 31 in the code), scaled together
WordBits == 5
MaxExponent == 3
U64Max == Pow2(WordBits) - 1
saturating_mul(a, b) == Min(a * b, U64Max)

\* Faulty variant of compute_backoff_seconds: the backoff is not capped.
compute_backoff_seconds_Uncapped(initial_seconds, max_seconds, attempts) ==
    LET exponent == Min(IF attempts >= 1 THEN attempts - 1 ELSE 0, MaxExponent)
    IN  initial_seconds * Pow2(exponent)

\* compute_backoff_seconds
compute_backoff_seconds(initial_seconds, max_seconds, attempts) ==
    LET exponent == Min(IF attempts >= 1 THEN attempts - 1 ELSE 0, MaxExponent)
        scaled == saturating_mul(initial_seconds, Pow2(exponent))
    IN  Min(scaled, max_seconds)

\* producer.rs retry_backoff_ms
retry_backoff_ms(base_ms, max_ms, attempt_index) ==
    LET exponent == Min(attempt_index, MaxExponent)
        scaled == saturating_mul(base_ms, Pow2(exponent))
    IN  Min(scaled, max_ms)

\* Faulty variant of retry_backoff_seconds: the product wraps around.
retry_backoff_seconds_Wrapping(base_seconds, max_seconds, attempt_index) ==
    LET exponent == Min(attempt_index, MaxExponent)
        scaled == (base_seconds * Pow2(exponent)) % (U64Max + 1)
    IN  Min(scaled, max_seconds)

\* kafka-openclaw-hook forwarder.rs retry_backoff_seconds
retry_backoff_seconds(base_seconds, max_seconds, attempt_index) ==
    LET exponent == Min(attempt_index, MaxExponent)
        scaled == saturating_mul(base_seconds, Pow2(exponent))
    IN  Min(scaled, max_seconds)

\* functions without state: nothing called yet
NoArgs == [fn |-> "none"]
NoResult == [fn |-> "none"]

\* sanitize_payload: only the decision on the source label
sanitize_payload(source) ==
    IF source \in {"github", "linear"} THEN "Ok" ELSE "Err"

\* the keys the handlers derive for a delivery (one entity per source)
dedup_key_of(source, delivery) == <<source, delivery>>
cooldown_key_of(source) == <<"cooldown", source>>
cooldown_seconds_of(source) ==
    IF source = "github" THEN github_cooldown_seconds ELSE linear_cooldown_seconds

\* the two webhook routes, labels of the metrics
Routes == {"github", "linear"}

\* A webhook request, by what the checks of its handler find in it:
\*   delivery    the delivery id header, "" if missing
\*   signature   the signature header: "missing", "invalid" or "valid"
\*   json        the body parses as JSON
\*   event_header X-GitHub-Event is present (GitHub)
\*   action      payload.action (and payload.type for Linear) is present
\*   supported   is_supported_github_event_action / is_supported_linear_type
\*   bot_sender  sender.login ends with "[bot]" (GitHub)
\*   timestamp_ok verify_linear_timestamp_window (Linear)
\*   agent_user  data.userId is the configured agent user (Linear)
ValidRequest(delivery) ==
    [delivery |-> delivery, signature |-> "valid", json |-> TRUE,
     event_header |-> TRUE, action |-> TRUE, supported |-> TRUE,
     bot_sender |-> FALSE, timestamp_ok |-> TRUE, agent_user |-> FALSE]

NoHook == [seq |-> 0, source |-> "github", request |-> ValidRequest(""),
           store_ok |-> TRUE, delivered |-> {}, at |-> 0, event_id |-> 0,
           status |-> 0, body |-> ""]

\* no shutdown signal yet
NoShutdown == [at |-> 0, due |-> {}]

\* the events pop_due_event may select at now_epoch
DueEvents(pending, now_epoch) ==
    {id \in DOMAIN pending : pending[id].next_retry_at_epoch <= now_epoch}

\* SourceRateLimiter: seconds of a minute bucket, the largest value of the
\* u32 counter, the calls of allow in a behaviour and the times they carry
SECONDS_PER_MINUTE == 2
CountMax == 3
MaxAllowCalls == 4
AllowTimes == (0 - SECONDS_PER_MINUTE)..(2 * SECONDS_PER_MINUTE + 1)

\* i64 division of Rust: the quotient is truncated towards zero
TruncDiv(a, b) == IF a >= 0 THEN a \div b ELSE 0 - ((0 - a) \div b)

\* the minute a time lies in: floor(now / 60)
MinuteOf(now_epoch) == now_epoch \div SECONDS_PER_MINUTE

Minutes == {MinuteOf(t) : t \in AllowTimes}

\* no call of allow yet
NoAllow == [now_epoch |-> 0, result |-> FALSE, source |-> "none", seq |-> 0]
NoneAllowed == [w \in Routes \X Minutes |-> 0]

\* no request to an admin route yet
NoAdmin == [route |-> "none", header |-> "", status |-> 0, body |-> ""]

\* no request to /ready yet
NoReady == [status |-> 0, worker_alive |-> TRUE, pending_read |-> TRUE,
            dlq_read |-> TRUE]

\* accepted(reason): 202 {"status":"accepted","reason":reason}
accepted(reason) == [status |-> 202, body |-> reason]

\* what a handler decides before it builds the event:
\*   an early return with an error status, counted under `reason`
rejected(status, error, reason) ==
    [step |-> "respond", status |-> status, body |-> error, dropped |-> reason]
\*   an early return with accepted(reason), counted under `reason`
dropped(reason) ==
    [step |-> "respond", status |-> accepted(reason).status,
     body |-> accepted(reason).body, dropped |-> reason]
\*   the event is built and handed to enqueue_pending_event
BuildEvent == [step |-> "enqueue", status |-> 0, body |-> "", dropped |-> ""]

DropReasons == {"duplicate_delivery", "cooldown", "sanitization_failed",
                "forward_failed", "invalid_signature", "invalid_payload",
                "filtered", "bot_sender", "invalid_timestamp", "agent_user"}
inc(counter, label) == [counter EXCEPT ![label] = @ + 1]

\* the answers of the gateway the worker is run against
ForwardAnswers == {Status(200), Status(503), Status(429), Status(404),
                   TransportError(TRUE, FALSE, FALSE),
                   TransportError(FALSE, FALSE, FALSE)}

\* history of an event since its enqueue or its last replay:
\*   forwards       forward attempts made, while all of them were transient
\*   transient_only every forward attempt so far had a Transient outcome
\*   dropped        increments of dropped_total{forward_failed} for the event
\*   permanent_at   attempts of the event when a forward was Permanent, else -1
NewHist == [forwards |-> 0, transient_only |-> TRUE, dropped |-> 0,
            permanent_at |-> -1]

(***************************************************************************)
(* Variant A: the ingress handlers github_hook / linear_hook, from the     *)
(* construction of the PendingEvent on.  The handler reads the clock for   *)
(* next_retry_at_epoch first and again for created_at_epoch and for the    *)
(* enqueue; skew is what the clock advanced in between.                    *)
(***************************************************************************)
\* Faulty variant of github_hook: the body is parsed before the signature
\* is verified.
github_hook_ParsesFirst(request) ==
    IF ~request.json
    THEN rejected(400, "invalid json", "invalid_payload")
    ELSE IF request.signature = "missing"
    THEN rejected(401, "missing signature", "invalid_signature")
    ELSE IF request.signature = "invalid"
    THEN rejected(401, "invalid signature", "invalid_signature")
    ELSE IF ~request.event_header
    THEN rejected(400, "missing X-GitHub-Event", "invalid_payload")
    ELSE IF request.delivery = ""
    THEN rejected(400, "missing X-GitHub-Delivery", "invalid_payload")
    ELSE IF ~request.action
    THEN rejected(400, "missing action in payload", "invalid_payload")
    ELSE IF ~request.supported
    THEN dropped("filtered")
    ELSE IF request.bot_sender
    THEN dropped("bot_sender")
    ELSE BuildEvent

\* github_hook up to the construction of the PendingEvent
github_hook(request) ==
    IF request.signature = "missing"
    THEN rejected(401, "missing signature", "invalid_signature")
    ELSE IF request.signature = "invalid"
    THEN rejected(401, "invalid signature", "invalid_signature")
    ELSE IF ~request.json
    THEN rejected(400, "invalid json", "invalid_payload")
    ELSE IF ~request.event_header
    THEN rejected(400, "missing X-GitHub-Event", "invalid_payload")
    ELSE IF request.delivery = ""
    THEN rejected(400, "missing X-GitHub-Delivery", "invalid_payload")
    ELSE IF ~request.action
    THEN rejected(400, "missing action in payload", "invalid_payload")
    ELSE IF ~request.supported
    THEN dropped("filtered")
    ELSE IF request.bot_sender
    THEN dropped("bot_sender")
    ELSE BuildEvent

\* Faulty variant of linear_hook: an event of the agent's own user is
\* counted and answered as filtered.
linear_hook_AgentAsFiltered(request) ==
    IF request.signature = "missing"
    THEN rejected(401, "missing signature", "invalid_signature")
    ELSE IF request.signature = "invalid"
    THEN rejected(401, "invalid signature", "invalid_signature")
    ELSE IF ~request.json
    THEN rejected(400, "invalid json", "invalid_payload")
    ELSE IF request.delivery = ""
    THEN rejected(400, "missing Linear-Delivery", "invalid_payload")
    ELSE IF ~request.action
    THEN rejected(400, "missing type or action in payload", "invalid_payload")
    ELSE IF ~request.supported
    THEN dropped("filtered")
    ELSE IF ~request.timestamp_ok
    THEN rejected(401, "invalid or stale webhookTimestamp", "invalid_timestamp")
    ELSE IF request.agent_user
    THEN dropped("filtered")
    ELSE BuildEvent

\* Faulty variant of linear_hook: the timestamp window is not enforced.
linear_hook_StaleEnqueued(request) ==
    IF request.signature = "missing"
    THEN rejected(401, "missing signature", "invalid_signature")
    ELSE IF request.signature = "invalid"
    THEN rejected(401, "invalid signature", "invalid_signature")
    ELSE IF ~request.json
    THEN rejected(400, "invalid json", "invalid_payload")
    ELSE IF request.delivery = ""
    THEN rejected(400, "missing Linear-Delivery", "invalid_payload")
    ELSE IF ~request.action
    THEN rejected(400, "missing type or action in payload", "invalid_payload")
    ELSE IF ~request.supported
    THEN dropped("filtered")
    ELSE IF request.agent_user
    THEN dropped("agent_user")
    ELSE BuildEvent

\* linear_hook up to the construction of the PendingEvent
linear_hook(request) ==
    IF request.signature = "missing"
    THEN rejected(401, "missing signature", "invalid_signature")
    ELSE IF request.signature = "invalid"
    THEN rejected(401, "invalid signature", "invalid_signature")
    ELSE IF ~request.json
    THEN rejected(400, "invalid json", "invalid_payload")
    ELSE IF request.delivery = ""
    THEN rejected(400, "missing Linear-Delivery", "invalid_payload")
    ELSE IF ~request.action
    THEN rejected(400, "missing type or action in payload", "invalid_payload")
    ELSE IF ~request.supported
    THEN dropped("filtered")
    ELSE IF ~request.timestamp_ok
    THEN rejected(401, "invalid or stale webhookTimestamp", "invalid_timestamp")
    ELSE IF request.agent_user
    THEN dropped("agent_user")
    ELSE BuildEvent

\* POST /hooks/github-pr and POST /hooks/linear: the whole handler.
\* skew: seconds between the clock reads of the handler; store_ok: whether
\* enqueue_pending_event returns Ok (an Err leaves the tables as they were)
Hook(source, request, skew, store_ok) ==
    /\ last_hook.seq < MaxHooks
    /\ next_event_id <= MaxEvents
    /\ now + skew <= MaxTime
    /\ LET d == IF source = "github" THEN github_hook(request)
                ELSE linear_hook(request)
           event == [event_id |-> next_event_id,
                     source |-> source,
                     dedup_key |-> dedup_key_of(source, request.delivery),
                     cooldown_key |-> cooldown_key_of(source),
                     attempts |-> 0,
                     next_retry_at_epoch |-> now,
                     created_at_epoch |-> now + skew]
           r == enqueue_pending_event(event, dedup_retention_seconds,
                                      cooldown_seconds_of(source), now + skew,
                                      dedup_index, cooldown_index, pending_events)
           seen == [seq |-> last_hook.seq + 1, source |-> source,
                    request |-> request, store_ok |-> store_ok,
                    delivered |-> delivered]
       IN  IF d.step = "respond"
           THEN /\ dropped_total' = inc(dropped_total, <<source, d.dropped>>)
                /\ last_hook' = seen @@ [at |-> now, event_id |-> 0,
                                         status |-> d.status, body |-> d.body]
                /\ UNCHANGED <<now, next_event_id, dedup_index, cooldown_index,
                               pending_events, hist, enqueued>>
           ELSE /\ now' = now + skew
                /\ next_event_id' = next_event_id + 1
                /\ IF ~store_ok
                   THEN /\ last_hook' = seen @@ [at |-> now + skew,
                                                 event_id |-> event.event_id,
                                                 status |-> 500,
                                                 body |-> "failed to enqueue event"]
                        /\ UNCHANGED <<dedup_index, cooldown_index, pending_events,
                                       dropped_total, hist, enqueued>>
                   ELSE /\ dedup_index' = r.dedup
                        /\ cooldown_index' = r.cooldown
                        /\ pending_events' = r.pending
                        /\ IF r.result = "Enqueued"
                           THEN /\ dropped_total' = dropped_total
                                /\ hist' = Put(hist, event.event_id, NewHist)
                                /\ enqueued' = Put(enqueued, event.event_id,
                                                 [dedup_key |-> event.dedup_key,
                                                  enqueued_at |-> now + skew])
                                /\ last_hook' = seen @@ [at |-> now + skew,
                                                         event_id |-> event.event_id,
                                                         status |-> accepted("enqueued").status,
                                                         body |-> accepted("enqueued").body]
                           ELSE LET reason == IF r.result = "Duplicate"
                                              THEN "duplicate_delivery" ELSE "cooldown"
                                IN  /\ dropped_total' = inc(dropped_total, <<source, reason>>)
                                    /\ hist' = hist
                                    /\ enqueued' = enqueued
                                    /\ last_hook' = seen @@ [at |-> now + skew,
                                                             event_id |-> event.event_id,
                                                             status |-> accepted(reason).status,
                                                             body |-> accepted(reason).body]
    /\ UNCHANGED <<dlq_events, forward_max_attempts, worker_pc, inflight,
                   forwarded_total, delivered, replays, admin_token, last_admin>>
    /\ UNCHANGED <<idem_vars, classify_vars, consumer_vars, ready_vars, limiter_vars, pure_vars, publisher_vars>>

\* a delivery that passes every check of its handler
Ingress(source, delivery, skew) ==
    Hook(source, ValidRequest(delivery), skew, TRUE)

(***************************************************************************)
(* Variant A: worker_loop.                                                 *)
(***************************************************************************)
\* the select! of the outer loop: woken by worker_notify or by the poll
\* sleep; after the shutdown signal the branch of shutdown_rx.changed() is
\* ready too, and taking it ends the task
WorkerWake ==
    /\ worker_pc = "wait"
    /\ worker_pc' \in IF shutdown THEN {"stopped", "pop"} ELSE {"pop"}
    /\ UNCHANGED <<pending_events, dlq_events, dedup_index, cooldown_index, now,
                   forward_max_attempts, inflight, forwarded_total, dropped_total,
                   next_event_id, delivered, hist, replays>>
    /\ UNCHANGED <<idem_vars, classify_vars, consumer_vars, hook_vars, ready_vars, limiter_vars, pure_vars, publisher_vars>>

\* the inner loop: it breaks when the shutdown value is set, else
\* pop_due_event(now); None breaks to the outer loop
WorkerPop ==
    /\ worker_pc = "pop"
    /\ IF shutdown
       THEN /\ worker_pc' = "wait"
            /\ UNCHANGED <<pending_events, inflight>>
       ELSE LET r == pop_due_event(now, pending_events)
            IN  /\ pending_events' = r.pending
                /\ inflight' = r.event
                /\ worker_pc' = IF r.selected # 0 THEN "process" ELSE "wait"
    /\ UNCHANGED <<dlq_events, dedup_index, cooldown_index, now,
                   forward_max_attempts, forwarded_total, dropped_total,
                   next_event_id, delivered, hist, replays>>
    /\ UNCHANGED <<idem_vars, classify_vars, consumer_vars, hook_vars, ready_vars, limiter_vars, pure_vars, publisher_vars>>

\* Faulty variant of process_pending_event: a Permanent outcome counts as
\* an attempt and is retried like a Transient one.
process_pending_event_RetriesPermanent(event, answer, max_attempts, now_epoch) ==
    LET outcome == forward_once(answer)
        attempts == event.attempts + 1
        backoff_seconds ==
            compute_backoff_seconds(forward_initial_backoff_seconds,
                                    forward_max_backoff_seconds, attempts)
    IN  IF sanitize_payload(event.source) = "Err"
        THEN [step |-> "dlq", event |-> event, reason |-> "sanitization_failed",
              outcome |-> "Unsanitized"]
        ELSE IF outcome = "Success"
        THEN [step |-> "done", event |-> event, reason |-> "", outcome |-> outcome]
        ELSE IF attempts >= max_attempts
        THEN [step |-> "dlq", event |-> [event EXCEPT !.attempts = attempts],
              reason |-> "forward_failed", outcome |-> outcome]
        ELSE [step |-> "requeue",
              event |-> [event EXCEPT !.attempts = attempts,
                                      !.next_retry_at_epoch = now_epoch + backoff_seconds],
              reason |-> "", outcome |-> outcome]

\* process_pending_event up to its store operation: what the worker decides
\* for the popped event on the gateway's answer.
\*   step "done": forwarded; "dlq": move_to_dlq(event, reason);
\*   "requeue": requeue_event(event)
process_pending_event(event, answer, max_attempts, now_epoch) ==
    LET outcome == forward_once(answer)
        attempts == event.attempts + 1
        backoff_seconds ==
            compute_backoff_seconds(forward_initial_backoff_seconds,
                                    forward_max_backoff_seconds, attempts)
    IN  IF sanitize_payload(event.source) = "Err"
        THEN [step |-> "dlq", event |-> event, reason |-> "sanitization_failed",
              outcome |-> "Unsanitized"]
        ELSE IF outcome = "Success"
        THEN [step |-> "done", event |-> event, reason |-> "", outcome |-> outcome]
        ELSE IF outcome = "Permanent"
        THEN [step |-> "dlq", event |-> event, reason |-> "forward_failed",
              outcome |-> outcome]
        ELSE IF attempts >= max_attempts
        THEN [step |-> "dlq", event |-> [event EXCEPT !.attempts = attempts],
              reason |-> "forward_failed", outcome |-> outcome]
        ELSE [step |-> "requeue",
              event |-> [event EXCEPT !.attempts = attempts,
                                      !.next_retry_at_epoch = now_epoch + backoff_seconds],
              reason |-> "", outcome |-> outcome]

\* process_pending_event for the event in flight.
\* answer: what the gateway answers; store_ok: whether the store operation
\* of this step (move_to_dlq or requeue_event) returns Ok; an Err is logged.
WorkerProcess(answer, store_ok) ==
    /\ worker_pc = "process"
    /\ LET id == inflight.event_id
           source_label == inflight.source
           p == process_pending_event(inflight, answer, forward_max_attempts, now)
       IN  /\ dlq_events' = IF p.step = "dlq" /\ store_ok
                            THEN move_to_dlq(p.event, p.reason, now, dlq_events)
                            ELSE dlq_events
           /\ pending_events' = IF p.step = "requeue" /\ store_ok
                                THEN requeue_event(p.event, pending_events)
                                ELSE pending_events
           /\ forwarded_total' = IF p.step = "done"
                                 THEN inc(forwarded_total, source_label)
                                 ELSE forwarded_total
           /\ dropped_total' = IF p.step = "dlq"
                               THEN inc(dropped_total, <<source_label, p.reason>>)
                               ELSE dropped_total
           /\ delivered' = IF p.step = "done" THEN delivered \cup {id} ELSE delivered
           /\ hist' = [hist EXCEPT ![id] =
                         IF p.outcome = "Transient" /\ @.transient_only
                         THEN [@ EXCEPT !.forwards = @ + 1,
                                        !.dropped = IF p.step = "dlq" THEN @ + 1 ELSE @]
                         ELSE [forwards |-> 0, transient_only |-> FALSE,
                               dropped |-> 0,
                               permanent_at |-> IF p.outcome = "Permanent"
                                                THEN inflight.attempts ELSE -1]]
    /\ inflight' = NoEvent
    /\ worker_pc' = "pop"
    /\ UNCHANGED <<dedup_index, cooldown_index, now, forward_max_attempts,
                   next_event_id, replays>>
    /\ UNCHANGED <<idem_vars, classify_vars, consumer_vars, hook_vars, ready_vars, limiter_vars, pure_vars, publisher_vars>>

WorkerProcessOk == \E answer \in ForwardAnswers : WorkerProcess(answer, TRUE)

(***************************************************************************)
(* Variant A: admin_replay (with a valid admin bearer).                    *)
(***************************************************************************)
AdminReplay(event_id) ==
    /\ replays < MaxReplays
    /\ now <= MaxTime
    /\ LET r == replay_dlq_event(event_id, now, dlq_events, pending_events)
       IN  /\ dlq_events' = r.dlq
           /\ pending_events' = r.pending
           /\ IF r.replayed
              THEN /\ hist' = [hist EXCEPT ![event_id] = NewHist]
                   /\ replays' = replays + 1
              ELSE UNCHANGED <<hist, replays>>
    /\ UNCHANGED <<dedup_index, cooldown_index, now, forward_max_attempts,
                   worker_pc, inflight, forwarded_total, dropped_total,
                   next_event_id, delivered>>
    /\ UNCHANGED <<idem_vars, classify_vars, consumer_vars, hook_vars, ready_vars, limiter_vars, pure_vars, publisher_vars>>

(***************************************************************************)
(* The clock.  It ticks freely up to MaxTime, and beyond it while the      *)
(* worker is idle and every pending event still waits for its retry time.  *)
(***************************************************************************)
Tick ==
    /\ \/ now < MaxTime
       \/ /\ inflight = NoEvent
          /\ pending_events # EmptyTable
          /\ \A id \in DOMAIN pending_events :
                 pending_events[id].next_retry_at_epoch > now
    /\ now' = now + 1
    /\ UNCHANGED <<pending_events, dlq_events, dedup_index, cooldown_index,
                   forward_max_attempts, worker_pc, inflight,
                   forwarded_total, dropped_total, next_event_id, delivered, hist,
                   replays>>
    /\ UNCHANGED <<idem_vars, classify_vars, consumer_vars, hook_vars, ready_vars, limiter_vars, pure_vars, publisher_vars>>

(***************************************************************************)
(* Faults: a store operation of the worker returns Err; the process stops  *)
(* and is started again on the same database file.                         *)
(***************************************************************************)
WorkerProcessStoreErr == \E answer \in ForwardAnswers : WorkerProcess(answer, FALSE)

\* pop_due_event returns Err: logged, break to the outer loop
WorkerPopErr ==
    /\ worker_pc = "pop"
    /\ worker_pc' = "wait"
    /\ UNCHANGED <<pending_events, dlq_events, dedup_index, cooldown_index, now,
                   forward_max_attempts, inflight, forwarded_total,
                   dropped_total, next_event_id, delivered, hist, replays>>
    /\ UNCHANGED <<idem_vars, classify_vars, consumer_vars, hook_vars, ready_vars, limiter_vars, pure_vars, publisher_vars>>

\* the process stops; main() starts again: the tables are what was
\* committed, everything in memory is new
Restart ==
    /\ worker_pc' = "wait"
    /\ inflight' = NoEvent
    /\ forwarded_total' = [s \in Sources |-> 0]
    /\ dropped_total' = [l \in Routes \X DropReasons |-> 0]
    /\ UNCHANGED <<pending_events, dlq_events, dedup_index, cooldown_index, now,
                   forward_max_attempts, next_event_id, delivered, hist, replays>>
    /\ UNCHANGED <<idem_vars, classify_vars, consumer_vars, hook_vars, ready_vars, limiter_vars, pure_vars, publisher_vars>>

(***************************************************************************)
(* IdempotencyStore (src/src/idempotency.rs).                              *)
(***************************************************************************)
\* the TTLs both stores are run with
dedup_ttl_seconds == 3
cooldown_seconds == github_cooldown_seconds

\* Option<&str>
None == [some |-> FALSE, key |-> ""]
Some(key) == [some |-> TRUE, key |-> key]

\* prune_expired
prune_expired(cache, now_epoch) ==
    [k \in {x \in DOMAIN cache : cache[x] > now_epoch} |-> cache[k]]

\* Faulty variant of check: the cooldown entry is taken as expired one
\* second early.
check_EarlyCooldownExpiry(dedup_key, cooldown_key, now_epoch, dedup_lock, cooldown_lock, dedup, cooldown) ==
    IF dedup_key = ""
    THEN [result |-> "Accept", dedup |-> dedup, cooldown |-> cooldown]
    ELSE IF ~dedup_lock
    THEN [result |-> "Duplicate", dedup |-> dedup, cooldown |-> cooldown]
    ELSE LET pruned == prune_expired(dedup, now_epoch)
         IN  IF dedup_key \in DOMAIN pruned /\ pruned[dedup_key] > now_epoch
             THEN [result |-> "Duplicate", dedup |-> pruned, cooldown |-> cooldown]
             ELSE LET dedup2 == Put(pruned, dedup_key, now_epoch + dedup_ttl_seconds)
                  IN  IF ~cooldown_key.some \/ cooldown_key.key = ""
                      THEN [result |-> "Accept", dedup |-> dedup2,
                            cooldown |-> cooldown]
                      ELSE IF ~cooldown_lock
                      THEN [result |-> "Cooldown", dedup |-> dedup2,
                            cooldown |-> cooldown]
                      ELSE LET cpruned == prune_expired(cooldown, now_epoch)
                           IN  IF /\ cooldown_key.key \in DOMAIN cpruned
                                  /\ cpruned[cooldown_key.key] > now_epoch + 1
                               THEN [result |-> "Cooldown", dedup |-> dedup2,
                                     cooldown |-> cpruned]
                               ELSE [result |-> "Accept", dedup |-> dedup2,
                                     cooldown |->
                                         Put(cpruned, cooldown_key.key,
                                             now_epoch + cooldown_seconds)]

\* Faulty variant of check: a call that cannot lock the cooldown map skips
\* the cooldown stage.
check_SkipsLockedCooldown(dedup_key, cooldown_key, now_epoch, dedup_lock, cooldown_lock, dedup, cooldown) ==
    IF dedup_key = ""
    THEN [result |-> "Accept", dedup |-> dedup, cooldown |-> cooldown]
    ELSE IF ~dedup_lock
    THEN [result |-> "Duplicate", dedup |-> dedup, cooldown |-> cooldown]
    ELSE LET pruned == prune_expired(dedup, now_epoch)
         IN  IF dedup_key \in DOMAIN pruned /\ pruned[dedup_key] > now_epoch
             THEN [result |-> "Duplicate", dedup |-> pruned, cooldown |-> cooldown]
             ELSE LET dedup2 == Put(pruned, dedup_key, now_epoch + dedup_ttl_seconds)
                  IN  IF ~cooldown_key.some \/ cooldown_key.key = "" \/ ~cooldown_lock
                      THEN [result |-> "Accept", dedup |-> dedup2,
                            cooldown |-> cooldown]
                      ELSE LET cpruned == prune_expired(cooldown, now_epoch)
                           IN  IF /\ cooldown_key.key \in DOMAIN cpruned
                                  /\ cpruned[cooldown_key.key] > now_epoch
                               THEN [result |-> "Cooldown", dedup |-> dedup2,
                                     cooldown |-> cpruned]
                               ELSE [result |-> "Accept", dedup |-> dedup2,
                                     cooldown |->
                                         Put(cpruned, cooldown_key.key,
                                             now_epoch + cooldown_seconds)]

\* IdempotencyStore::check; dedup_lock / cooldown_lock: whether lock()
\* of the map returns Ok
check(dedup_key, cooldown_key, now_epoch, dedup_lock, cooldown_lock, dedup, cooldown) ==
    IF dedup_key = ""
    THEN [result |-> "Accept", dedup |-> dedup, cooldown |-> cooldown]
    ELSE IF ~dedup_lock
    THEN [result |-> "Duplicate", dedup |-> dedup, cooldown |-> cooldown]
    ELSE LET pruned == prune_expired(dedup, now_epoch)
         IN  IF dedup_key \in DOMAIN pruned /\ pruned[dedup_key] > now_epoch
             THEN [result |-> "Duplicate", dedup |-> pruned, cooldown |-> cooldown]
             ELSE LET dedup2 == Put(pruned, dedup_key, now_epoch + dedup_ttl_seconds)
                  IN  IF ~cooldown_key.some \/ cooldown_key.key = ""
                      THEN [result |-> "Accept", dedup |-> dedup2,
                            cooldown |-> cooldown]
                      ELSE IF ~cooldown_lock
                      THEN [result |-> "Cooldown", dedup |-> dedup2,
                            cooldown |-> cooldown]
                      ELSE LET cpruned == prune_expired(cooldown, now_epoch)
                           IN  IF /\ cooldown_key.key \in DOMAIN cpruned
                                  /\ cpruned[cooldown_key.key] > now_epoch
                               THEN [result |-> "Cooldown", dedup |-> dedup2,
                                     cooldown |-> cpruned]
                               ELSE [result |-> "Accept", dedup |-> dedup2,
                                     cooldown |->
                                         Put(cpruned, cooldown_key.key,
                                             now_epoch + cooldown_seconds)]

(***************************************************************************)
(* IdempotencyStore::check and RelayStore::enqueue_pending_event run side  *)
(* by side on the same calls.  `now` is an argument of both: a call may    *)
(* carry any time.  The store takes its cooldown key as a String, so it is *)
(* run on the calls that carry one.                                        *)
(***************************************************************************)
CallDedupKeys == {"", "d1", "d2", "d3"}
CallCooldownKeys == {None, Some("c1"), Some("c2")}
CallTimes == 0..MaxCallTime

\* whether a call with this result recorded its dedup key
PastDedup(result) == result \in {"Enqueued", "Cooldown", "Accept"}
Admitted(result) == result \in {"Enqueued", "Accept"}

NoCall == [dedup_key |-> "", cooldown_key |-> None, now |-> 0,
           enqueue |-> "none", check |-> "none",
           prev_pass |-> [enqueue |-> -1, check |-> -1],
           prev_admits |-> [enqueue |-> {}, check |-> {}]]

Call(dedup_key, cooldown_key, now_epoch, dedup_lock, cooldown_lock) ==
    /\ calls < MaxCalls
    /\ LET event == [event_id |-> calls + 1, source |-> "github",
                     dedup_key |-> dedup_key, cooldown_key |-> cooldown_key.key,
                     attempts |-> 0, next_retry_at_epoch |-> now_epoch,
                     created_at_epoch |-> now_epoch]
           e == IF cooldown_key.some
                THEN enqueue_pending_event(event, dedup_ttl_seconds,
                                           cooldown_seconds, now_epoch,
                                           side_dedup_index, side_cooldown_index,
                                           side_pending)
                ELSE [result |-> "none", dedup |-> side_dedup_index,
                      cooldown |-> side_cooldown_index, pending |-> side_pending]
           c == check(dedup_key, cooldown_key, now_epoch, dedup_lock,
                      cooldown_lock, dedup_expirations, cooldown_expirations)
           \* check records the dedup key unless it returns early
           c_past == /\ dedup_key # ""
                     /\ dedup_lock
                     /\ ~(c.result = "Duplicate")
           keyed == dedup_key # ""
           ck == cooldown_key.key
       IN  /\ side_dedup_index' = e.dedup
           /\ side_cooldown_index' = e.cooldown
           /\ side_pending' = e.pending
           /\ dedup_expirations' = c.dedup
           /\ cooldown_expirations' = c.cooldown
           /\ call' = [dedup_key |-> dedup_key, cooldown_key |-> cooldown_key,
                       now |-> now_epoch, enqueue |-> e.result, check |-> c.result,
                       prev_pass |-> [enqueue |-> passes["enqueue"][dedup_key],
                                      check |-> passes["check"][dedup_key]],
                       prev_admits |->
                           IF ck \in {"c1", "c2"}
                           THEN [enqueue |-> admits["enqueue"][ck],
                                 check |-> admits["check"][ck]]
                           ELSE [enqueue |-> {}, check |-> {}]]
           /\ passes' = [passes EXCEPT
                           !["enqueue"][dedup_key] =
                               IF PastDedup(e.result) THEN now_epoch ELSE @,
                           !["check"][dedup_key] =
                               IF c_past THEN now_epoch ELSE @]
           /\ admits' = IF ck \in {"c1", "c2"}
                        THEN [admits EXCEPT
                                !["enqueue"][ck] =
                                    IF Admitted(e.result)
                                    THEN @ \cup {[at |-> now_epoch, keyed |-> keyed]}
                                    ELSE @,
                                !["check"][ck] =
                                    IF Admitted(c.result)
                                    THEN @ \cup {[at |-> now_epoch, keyed |-> keyed]}
                                    ELSE @]
                        ELSE admits
           /\ monotone' = (monotone /\ (calls = 0 \/ now_epoch >= call.now))
           /\ cooled' = [st \in {"enqueue", "check"} |->
                            LET past == IF st = "enqueue" THEN PastDedup(e.result)
                                        ELSE c_past
                                res == IF st = "enqueue" THEN e.result ELSE c.result
                            IN  IF ~past THEN cooled[st]
                                ELSE IF res = "Cooldown"
                                THEN cooled[st] \cup {dedup_key}
                                ELSE cooled[st] \ {dedup_key}]
           /\ prev_cooled' = [st \in {"enqueue", "check"} |-> dedup_key \in cooled[st]]
           /\ locks' = [dedup |-> dedup_lock, cooldown |-> cooldown_lock]
           /\ UNCHANGED threads
           /\ aligned' = (aligned /\ cooldown_key.some)
           /\ calls' = calls + 1
    /\ UNCHANGED <<relay_vars, classify_vars, consumer_vars, hook_vars, ready_vars, limiter_vars, pure_vars, publisher_vars>>

\* a call with both locks acquired.  The keys are named in the order of
\* their first use: "d2" appears only after "d1" was recorded, "d3" after
\* "d2", and the cooldown key "c2" after "c1".
CallStep ==
    \E dedup_key \in CallDedupKeys, cooldown_key \in CallCooldownKeys,
       now_epoch \in CallTimes :
        /\ dedup_key = "d2" => passes["check"]["d1"] >= 0
        /\ dedup_key = "d3" => passes["check"]["d2"] >= 0
        /\ cooldown_key = Some("c2") => "c1" \in DOMAIN side_cooldown_index
        /\ Call(dedup_key, cooldown_key, now_epoch, TRUE, TRUE)

NextIdem == CallStep

\* a call that finds either mutex poisoned or not: lock() returns Err on a
\* mutex whose holder panicked, and from then on for every call.  The
\* calls carry the time of a clock that does not go back.
CallLockStep ==
    \E dedup_key \in CallDedupKeys \ {"d3"}, cooldown_key \in CallCooldownKeys,
       now_epoch \in {t \in CallTimes : t >= call.now},
       dedup_lock \in IF locks.dedup THEN BOOLEAN ELSE {FALSE},
       cooldown_lock \in IF locks.cooldown THEN BOOLEAN ELSE {FALSE} :
        /\ dedup_key = "d2" => "d1" \in DOMAIN side_dedup_index
        /\ cooldown_key = Some("c2") => "c1" \in DOMAIN side_cooldown_index
        /\ Call(dedup_key, cooldown_key, now_epoch, dedup_lock, cooldown_lock)

NextLocks == CallLockStep

(***************************************************************************)
(* Variant A, store operations succeed and the process keeps running.      *)
(* Init is the state after main() opened an empty database; the stores and *)
(* the classification of the other specifications stay as constructed.     *)
(***************************************************************************)
Init ==
    /\ pending_events = EmptyTable
    /\ dlq_events = EmptyTable
    /\ dedup_index = EmptyTable
    /\ cooldown_index = EmptyTable
    /\ now = 0
    /\ forward_max_attempts \in 0..MaxAttemptsCfg
    /\ worker_pc = "wait"
    /\ inflight = NoEvent
    /\ forwarded_total = [s \in Sources |-> 0]
    /\ dropped_total = [l \in Routes \X DropReasons |-> 0]
    /\ next_event_id = 1
    /\ delivered = {}
    /\ hist = EmptyTable
    /\ replays = 0
    \* not exercised
    /\ dedup_expirations = EmptyTable
    /\ cooldown_expirations = EmptyTable
    /\ side_dedup_index = EmptyTable
    /\ side_cooldown_index = EmptyTable
    /\ side_pending = EmptyTable
    /\ call = NoCall
    /\ calls = 0
    /\ passes = [st \in {"enqueue", "check"} |-> [k \in CallDedupKeys |-> -1]]
    /\ admits = [st \in {"enqueue", "check"} |-> [k \in {"c1", "c2"} |-> {}]]
    /\ monotone = TRUE
    /\ cooled = [st \in {"enqueue", "check"} |-> {}]
    /\ prev_cooled = [st \in {"enqueue", "check"} |-> FALSE]
    /\ threads = <<>>
    /\ locks = [dedup |-> TRUE, cooldown |-> TRUE]
    /\ aligned = TRUE
    /\ gateway = Status(200)
    /\ outcome_embedded = "none"
    /\ outcome_consumer = "none"
    /\ kc_max_retries = 0
    /\ kc_pc = "recv"
    /\ kc_offset = 0
    /\ kc_attempt = 0
    /\ kc_committed = 0
    /\ kc_forwarded = {}
    /\ kc_forwards = EmptyTable
    /\ kc_dlq_topic = EmptyTable
    /\ kc_commit_calls = {}
    /\ kc_errors = EmptyTable
    /\ last_hook = NoHook
    /\ enqueued = EmptyTable
    /\ admin_token = None
    /\ last_admin = NoAdmin
    /\ shutdown = FALSE
    /\ last_ready = NoReady
    /\ at_shutdown = NoShutdown
    /\ limit_per_minute = 0
    /\ windows = EmptyTable
    /\ last_allow = NoAllow
    /\ allowed_in = NoneAllowed
    /\ ordered = TRUE
    /\ fn_args = NoArgs
    /\ fn_result = NoResult
    /\ max_retries = 0
    /\ backoff_base_ms = 0
    /\ backoff_max_ms = 0
    /\ pub_pc = "recv"
    /\ pub_job = 0
    /\ attempt = 0
    /\ slept = <<>>
    /\ published = EmptyTable
    /\ logged = {}

IngressStep ==
    \E source \in Sources, delivery \in Deliveries, skew \in 0..ClockSkew :
        Ingress(source, delivery, skew)

AdminReplayStep == \E event_id \in EventIds : AdminReplay(event_id)

Next ==
    \/ IngressStep
    \/ WorkerWake
    \/ WorkerPop
    \/ WorkerProcessOk
    \/ AdminReplayStep
    \/ Tick

Spec == Init /\ [][Next]_vars

(***************************************************************************)
(* Variant A with faults.                                                  *)
(***************************************************************************)
NextFaults ==
    \/ IngressStep
    \/ WorkerWake
    \/ WorkerPop
    \/ WorkerProcessOk
    \/ AdminReplayStep
    \/ Tick
    \/ WorkerProcessStoreErr
    \/ WorkerPopErr
    \/ Restart

SpecFaults == Init /\ [][NextFaults]_vars

(***************************************************************************)
(* Variant A under the scheduling the code guarantees while the process    *)
(* runs and the store works: the worker is woken by the poll sleep at the  *)
(* latest, never blocks between pop and the recording of the outcome when  *)
(* the gateway answers (the HTTP client has a request timeout), and the    *)
(* clock advances.                                                         *)
(***************************************************************************)
SpecLive ==
    /\ Spec
    /\ WF_vars(WorkerWake)
    /\ WF_vars(WorkerPop)
    /\ WF_vars(WorkerProcessOk)
    /\ WF_vars(Tick)

(***************************************************************************)
(* The two idempotency stores side by side.                                *)
(***************************************************************************)
\* IdempotencyStore::new and an empty RelayStore
InitIdem ==
    /\ dedup_expirations = EmptyTable
    /\ cooldown_expirations = EmptyTable
    /\ side_dedup_index = EmptyTable
    /\ side_cooldown_index = EmptyTable
    /\ side_pending = EmptyTable
    /\ call = NoCall
    /\ calls = 0
    /\ passes = [st \in {"enqueue", "check"} |-> [k \in CallDedupKeys |-> -1]]
    /\ admits = [st \in {"enqueue", "check"} |-> [k \in {"c1", "c2"} |-> {}]]
    /\ monotone = TRUE
    /\ cooled = [st \in {"enqueue", "check"} |-> {}]
    /\ prev_cooled = [st \in {"enqueue", "check"} |-> FALSE]
    /\ threads = <<>>
    /\ locks = [dedup |-> TRUE, cooldown |-> TRUE]
    /\ aligned = TRUE
    \* not exercised
    /\ pending_events = EmptyTable
    /\ dlq_events = EmptyTable
    /\ dedup_index = EmptyTable
    /\ cooldown_index = EmptyTable
    /\ now = 0
    /\ forward_max_attempts = 0
    /\ worker_pc = "wait"
    /\ inflight = NoEvent
    /\ forwarded_total = [s \in Sources |-> 0]
    /\ dropped_total = [l \in Routes \X DropReasons |-> 0]
    /\ next_event_id = 1
    /\ delivered = {}
    /\ hist = EmptyTable
    /\ replays = 0
    /\ gateway = Status(200)
    /\ outcome_embedded = "none"
    /\ outcome_consumer = "none"
    /\ kc_max_retries = 0
    /\ kc_pc = "recv"
    /\ kc_offset = 0
    /\ kc_attempt = 0
    /\ kc_committed = 0
    /\ kc_forwarded = {}
    /\ kc_forwards = EmptyTable
    /\ kc_dlq_topic = EmptyTable
    /\ kc_commit_calls = {}
    /\ kc_errors = EmptyTable
    /\ last_hook = NoHook
    /\ enqueued = EmptyTable
    /\ admin_token = None
    /\ last_admin = NoAdmin
    /\ shutdown = FALSE
    /\ last_ready = NoReady
    /\ at_shutdown = NoShutdown
    /\ limit_per_minute = 0
    /\ windows = EmptyTable
    /\ last_allow = NoAllow
    /\ allowed_in = NoneAllowed
    /\ ordered = TRUE
    /\ fn_args = NoArgs
    /\ fn_result = NoResult
    /\ max_retries = 0
    /\ backoff_base_ms = 0
    /\ backoff_max_ms = 0
    /\ pub_pc = "recv"
    /\ pub_job = 0
    /\ attempt = 0
    /\ slept = <<>>
    /\ published = EmptyTable
    /\ logged = {}

SpecIdem == InitIdem /\ [][NextIdem]_vars

\* the same calls, with locks that may fail
SpecLocks == InitIdem /\ [][NextLocks]_vars

(***************************************************************************)
(* Classification of gateway answers by both forwarders.                   *)
(***************************************************************************)
\* the gateway's answer to a request is the input
InitClassify ==
    /\ gateway \in GatewayAnswers
    /\ outcome_embedded = "none"
    /\ outcome_consumer = "none"
    \* not exercised
    /\ pending_events = EmptyTable
    /\ dlq_events = EmptyTable
    /\ dedup_index = EmptyTable
    /\ cooldown_index = EmptyTable
    /\ now = 0
    /\ forward_max_attempts = 0
    /\ worker_pc = "wait"
    /\ inflight = NoEvent
    /\ forwarded_total = [s \in Sources |-> 0]
    /\ dropped_total = [l \in Routes \X DropReasons |-> 0]
    /\ next_event_id = 1
    /\ delivered = {}
    /\ hist = EmptyTable
    /\ replays = 0
    /\ dedup_expirations = EmptyTable
    /\ cooldown_expirations = EmptyTable
    /\ side_dedup_index = EmptyTable
    /\ side_cooldown_index = EmptyTable
    /\ side_pending = EmptyTable
    /\ call = NoCall
    /\ calls = 0
    /\ passes = [st \in {"enqueue", "check"} |-> [k \in CallDedupKeys |-> -1]]
    /\ admits = [st \in {"enqueue", "check"} |-> [k \in {"c1", "c2"} |-> {}]]
    /\ monotone = TRUE
    /\ cooled = [st \in {"enqueue", "check"} |-> {}]
    /\ prev_cooled = [st \in {"enqueue", "check"} |-> FALSE]
    /\ threads = <<>>
    /\ locks = [dedup |-> TRUE, cooldown |-> TRUE]
    /\ aligned = TRUE
    /\ kc_max_retries = 0
    /\ kc_pc = "recv"
    /\ kc_offset = 0
    /\ kc_attempt = 0
    /\ kc_committed = 0
    /\ kc_forwarded = {}
    /\ kc_forwards = EmptyTable
    /\ kc_dlq_topic = EmptyTable
    /\ kc_commit_calls = {}
    /\ kc_errors = EmptyTable
    /\ last_hook = NoHook
    /\ enqueued = EmptyTable
    /\ admin_token = None
    /\ last_admin = NoAdmin
    /\ shutdown = FALSE
    /\ last_ready = NoReady
    /\ at_shutdown = NoShutdown
    /\ limit_per_minute = 0
    /\ windows = EmptyTable
    /\ last_allow = NoAllow
    /\ allowed_in = NoneAllowed
    /\ ordered = TRUE
    /\ fn_args = NoArgs
    /\ fn_result = NoResult
    /\ max_retries = 0
    /\ backoff_base_ms = 0
    /\ backoff_max_ms = 0
    /\ pub_pc = "recv"
    /\ pub_job = 0
    /\ attempt = 0
    /\ slept = <<>>
    /\ published = EmptyTable
    /\ logged = {}

\* both forwarders classify the answer
Classify ==
    /\ outcome_embedded = "none"
    /\ outcome_embedded' = forward_once(gateway)
    /\ outcome_consumer' = Forwarder_forward_once(gateway)
    /\ UNCHANGED <<gateway, relay_vars, idem_vars, consumer_vars, hook_vars, ready_vars, limiter_vars, pure_vars, publisher_vars>>

NextClassify == Classify

SpecClassify == InitClassify /\ [][NextClassify]_vars

(***************************************************************************)
(* kafka-openclaw-hook: KafkaConsumer::run, process_message and            *)
(* Forwarder::forward_with_retry.  One partition of the source topic       *)
(* holds the messages with offsets 0..MaxMessages-1; the consumer is a     *)
(* single task, so the messages are processed in offset order.             *)
(***************************************************************************)
Offsets == 0..(MaxMessages - 1)
Payloads == {"envelope", "missing", "malformed"}

\* process_message returns to run: an error is logged, and the loop goes on
\* to the next recv
ProcessReturns(error) ==
    /\ kc_pc' = "recv"
    /\ kc_offset' = kc_offset + 1
    /\ kc_attempt' = 0
    /\ kc_errors' = IF error = "" THEN kc_errors
                    ELSE kc_errors @@ (kc_offset :> error)

\* Faulty variant of AfterForward: the offset is committed although the
\* DLQ publish failed.
AfterForward_CommitsAnyway(result, dlq_ok, commit_ok) ==
    IF result # "Ok" /\ ~dlq_ok
    THEN /\ ProcessReturns("publish dlq envelope")
         /\ kc_commit_calls' = kc_commit_calls \cup {kc_offset}
         /\ kc_committed' = kc_offset + 1
         /\ UNCHANGED kc_dlq_topic
    ELSE /\ kc_dlq_topic' = IF result # "Ok"
                            THEN kc_dlq_topic @@ (kc_offset :> result)
                            ELSE kc_dlq_topic
         /\ IF commit_ok
            THEN /\ kc_commit_calls' = kc_commit_calls \cup {kc_offset}
                 /\ kc_committed' = kc_offset + 1
                 /\ ProcessReturns("")
            ELSE /\ UNCHANGED <<kc_commit_calls, kc_committed>>
                 /\ ProcessReturns("commit kafka offset")

\* process_message from the return of forward_with_retry on: the DLQ
\* publish after an error, then commit_message, which moves the committed
\* position of the partition to the offset after the message
AfterForward(result, dlq_ok, commit_ok) ==
    IF result # "Ok" /\ ~dlq_ok
    THEN /\ ProcessReturns("publish dlq envelope")
         /\ UNCHANGED <<kc_dlq_topic, kc_commit_calls, kc_committed>>
    ELSE /\ kc_dlq_topic' = IF result # "Ok"
                            THEN kc_dlq_topic @@ (kc_offset :> result)
                            ELSE kc_dlq_topic
         /\ IF commit_ok
            THEN /\ kc_commit_calls' = kc_commit_calls \cup {kc_offset}
                 /\ kc_committed' = kc_offset + 1
                 /\ ProcessReturns("")
            ELSE /\ UNCHANGED <<kc_commit_calls, kc_committed>>
                 /\ ProcessReturns("commit kafka offset")

\* run receives the next message and process_message starts on it; with
\* max_retries = 0 the loop of forward_with_retry has no iteration
ConsumerRecv(payload, dlq_ok, commit_ok) ==
    /\ kc_pc = "recv"
    /\ kc_offset \in Offsets
    /\ kc_forwards' = kc_forwards @@ (kc_offset :> 0)
    /\ IF payload = "missing"
       THEN /\ ProcessReturns("kafka message missing payload")
            /\ UNCHANGED <<kc_dlq_topic, kc_commit_calls, kc_committed>>
       ELSE IF payload = "malformed"
       THEN /\ ProcessReturns("deserialize webhook envelope from kafka")
            /\ UNCHANGED <<kc_dlq_topic, kc_commit_calls, kc_committed>>
       ELSE IF kc_max_retries = 0
       THEN AfterForward("retry loop terminated unexpectedly", dlq_ok, commit_ok)
       ELSE /\ kc_pc' = "forward"
            /\ kc_attempt' = 1
            /\ UNCHANGED <<kc_offset, kc_errors, kc_dlq_topic, kc_commit_calls,
                           kc_committed>>
    /\ UNCHANGED <<kc_max_retries, kc_forwarded>>
    /\ UNCHANGED <<relay_vars, idem_vars, classify_vars, hook_vars, ready_vars, limiter_vars, pure_vars, publisher_vars>>

\* one iteration of the loop of forward_with_retry, and what follows it in
\* process_message when the loop returns
ConsumerForward(answer, dlq_ok, commit_ok) ==
    /\ kc_pc = "forward"
    /\ kc_forwards' = [kc_forwards EXCEPT ![kc_offset] = @ + 1]
    /\ LET outcome == Forwarder_forward_once(answer) IN
       IF outcome = "Ok"
       THEN /\ kc_forwarded' = kc_forwarded \cup {kc_offset}
            /\ AfterForward("Ok", dlq_ok, commit_ok)
       ELSE /\ kc_forwarded' = kc_forwarded
            /\ IF outcome = "Permanent"
               THEN AfterForward("Permanent", dlq_ok, commit_ok)
               ELSE IF kc_attempt >= kc_max_retries
               THEN AfterForward("Retryable", dlq_ok, commit_ok)
               ELSE /\ kc_attempt' = kc_attempt + 1
                    /\ UNCHANGED <<kc_pc, kc_offset, kc_errors, kc_dlq_topic,
                                   kc_commit_calls, kc_committed>>
    /\ UNCHANGED kc_max_retries
    /\ UNCHANGED <<relay_vars, idem_vars, classify_vars, hook_vars, ready_vars, limiter_vars, pure_vars, publisher_vars>>

\* the consumer starts at the head of the partition, nothing committed
InitConsumer ==
    /\ kc_max_retries \in 0..MaxRetriesCfg
    /\ kc_pc = "recv"
    /\ kc_offset = 0
    /\ kc_attempt = 0
    /\ kc_committed = 0
    /\ kc_forwarded = {}
    /\ kc_forwards = EmptyTable
    /\ kc_dlq_topic = EmptyTable
    /\ kc_commit_calls = {}
    /\ kc_errors = EmptyTable
    \* not exercised
    /\ gateway = Status(200)
    /\ outcome_embedded = "none"
    /\ outcome_consumer = "none"
    /\ pending_events = EmptyTable
    /\ dlq_events = EmptyTable
    /\ dedup_index = EmptyTable
    /\ cooldown_index = EmptyTable
    /\ now = 0
    /\ forward_max_attempts = 0
    /\ worker_pc = "wait"
    /\ inflight = NoEvent
    /\ forwarded_total = [s \in Sources |-> 0]
    /\ dropped_total = [l \in Routes \X DropReasons |-> 0]
    /\ next_event_id = 1
    /\ delivered = {}
    /\ hist = EmptyTable
    /\ replays = 0
    /\ dedup_expirations = EmptyTable
    /\ cooldown_expirations = EmptyTable
    /\ side_dedup_index = EmptyTable
    /\ side_cooldown_index = EmptyTable
    /\ side_pending = EmptyTable
    /\ call = NoCall
    /\ calls = 0
    /\ passes = [st \in {"enqueue", "check"} |-> [k \in CallDedupKeys |-> -1]]
    /\ admits = [st \in {"enqueue", "check"} |-> [k \in {"c1", "c2"} |-> {}]]
    /\ monotone = TRUE
    /\ cooled = [st \in {"enqueue", "check"} |-> {}]
    /\ prev_cooled = [st \in {"enqueue", "check"} |-> FALSE]
    /\ threads = <<>>
    /\ locks = [dedup |-> TRUE, cooldown |-> TRUE]
    /\ aligned = TRUE
    /\ last_hook = NoHook
    /\ enqueued = EmptyTable
    /\ admin_token = None
    /\ last_admin = NoAdmin
    /\ shutdown = FALSE
    /\ last_ready = NoReady
    /\ at_shutdown = NoShutdown
    /\ limit_per_minute = 0
    /\ windows = EmptyTable
    /\ last_allow = NoAllow
    /\ allowed_in = NoneAllowed
    /\ ordered = TRUE
    /\ fn_args = NoArgs
    /\ fn_result = NoResult
    /\ max_retries = 0
    /\ backoff_base_ms = 0
    /\ backoff_max_ms = 0
    /\ pub_pc = "recv"
    /\ pub_job = 0
    /\ attempt = 0
    /\ slept = <<>>
    /\ published = EmptyTable
    /\ logged = {}

ConsumerRecvStep ==
    \E payload \in Payloads, dlq_ok \in BOOLEAN, commit_ok \in BOOLEAN :
        ConsumerRecv(payload, dlq_ok, commit_ok)

ConsumerForwardStep ==
    \E answer \in ForwardAnswers, dlq_ok \in BOOLEAN, commit_ok \in BOOLEAN :
        ConsumerForward(answer, dlq_ok, commit_ok)

NextConsumer ==
    \/ ConsumerRecvStep
    \/ ConsumerForwardStep

SpecConsumer == InitConsumer /\ [][NextConsumer]_vars

(***************************************************************************)
(* The webhook handlers on every kind of request, without the worker.      *)
(***************************************************************************)
Signatures == {"missing", "invalid", "valid"}

\* the checks a request can fail, by the field that fails
Defects(source) ==
    IF source = "github"
    THEN {"json", "event_header", "delivery", "action", "supported", "bot_sender"}
    ELSE {"json", "delivery", "action", "supported", "timestamp_ok", "agent_user"}

\* a body that is not JSON has no action and no supported event either
WithDefect(request, field) ==
    IF field = "json"
    THEN [request EXCEPT !.json = FALSE, !.action = FALSE, !.supported = FALSE]
    ELSE IF field = "event_header" THEN [request EXCEPT !.event_header = FALSE]
    ELSE IF field = "delivery" THEN [request EXCEPT !.delivery = ""]
    ELSE IF field = "action"
    THEN [request EXCEPT !.action = FALSE, !.supported = FALSE]
    ELSE IF field = "supported" THEN [request EXCEPT !.supported = FALSE]
    ELSE IF field = "bot_sender" THEN [request EXCEPT !.bot_sender = TRUE]
    ELSE IF field = "timestamp_ok" THEN [request EXCEPT !.timestamp_ok = FALSE]
    ELSE [request EXCEPT !.agent_user = TRUE]

\* the requests sent to a route: the valid deliveries, each of them failing
\* one check, and each of those with a missing or an invalid signature
Requests(source) ==
    LET valid == {ValidRequest(d) : d \in Deliveries}
        one == {WithDefect(r, f) : r \in valid, f \in Defects(source)}
    IN  {[r EXCEPT !.signature = sig] : r \in valid \cup one, sig \in Signatures}

\* the handlers start on an empty store
InitHooks ==
    /\ pending_events = EmptyTable
    /\ dlq_events = EmptyTable
    /\ dedup_index = EmptyTable
    /\ cooldown_index = EmptyTable
    /\ now = 0
    /\ forward_max_attempts = MaxAttemptsCfg
    /\ worker_pc = "wait"
    /\ inflight = NoEvent
    /\ forwarded_total = [s \in Sources |-> 0]
    /\ dropped_total = [l \in Routes \X DropReasons |-> 0]
    /\ next_event_id = 1
    /\ delivered = {}
    /\ hist = EmptyTable
    /\ replays = 0
    \* not exercised
    /\ dedup_expirations = EmptyTable
    /\ cooldown_expirations = EmptyTable
    /\ side_dedup_index = EmptyTable
    /\ side_cooldown_index = EmptyTable
    /\ side_pending = EmptyTable
    /\ call = NoCall
    /\ calls = 0
    /\ passes = [st \in {"enqueue", "check"} |-> [k \in CallDedupKeys |-> -1]]
    /\ admits = [st \in {"enqueue", "check"} |-> [k \in {"c1", "c2"} |-> {}]]
    /\ monotone = TRUE
    /\ cooled = [st \in {"enqueue", "check"} |-> {}]
    /\ prev_cooled = [st \in {"enqueue", "check"} |-> FALSE]
    /\ threads = <<>>
    /\ locks = [dedup |-> TRUE, cooldown |-> TRUE]
    /\ aligned = TRUE
    /\ gateway = Status(200)
    /\ outcome_embedded = "none"
    /\ outcome_consumer = "none"
    /\ kc_max_retries = 0
    /\ kc_pc = "recv"
    /\ kc_offset = 0
    /\ kc_attempt = 0
    /\ kc_committed = 0
    /\ kc_forwarded = {}
    /\ kc_forwards = EmptyTable
    /\ kc_dlq_topic = EmptyTable
    /\ kc_commit_calls = {}
    /\ kc_errors = EmptyTable
    /\ last_hook = NoHook
    /\ enqueued = EmptyTable
    /\ admin_token = None
    /\ last_admin = NoAdmin
    /\ shutdown = FALSE
    /\ last_ready = NoReady
    /\ at_shutdown = NoShutdown
    /\ limit_per_minute = 0
    /\ windows = EmptyTable
    /\ last_allow = NoAllow
    /\ allowed_in = NoneAllowed
    /\ ordered = TRUE
    /\ fn_args = NoArgs
    /\ fn_result = NoResult
    /\ max_retries = 0
    /\ backoff_base_ms = 0
    /\ backoff_max_ms = 0
    /\ pub_pc = "recv"
    /\ pub_job = 0
    /\ attempt = 0
    /\ slept = <<>>
    /\ published = EmptyTable
    /\ logged = {}

\* a request to either route; an Err of the store is drawn for the requests
\* that reach enqueue_pending_event
HookStep ==
    \E source \in Routes, store_ok \in BOOLEAN :
        \E request \in Requests(source) :
            /\ store_ok \/ (IF source = "github" THEN github_hook(request)
                            ELSE linear_hook(request)).step = "enqueue"
            /\ Hook(source, request, 0, store_ok)

NextHooks ==
    \/ HookStep
    \/ Tick

SpecHooks == InitHooks /\ [][NextHooks]_vars

(***************************************************************************)
(* GET /ready and the shutdown signal.                                     *)
(***************************************************************************)
\* the task of worker_loop has not returned
WorkerAlive == worker_pc # "stopped"

\* GET /ready.  pending_read / dlq_read: whether pending_count() and
\* dlq_count() return Ok
ready(pending_read, dlq_read) ==
    IF ~pending_read THEN 503
    ELSE IF ~dlq_read THEN 503
    ELSE 200

Ready(pending_read, dlq_read) ==
    /\ last_ready' = [status |-> ready(pending_read, dlq_read),
                      worker_alive |-> WorkerAlive,
                      pending_read |-> pending_read, dlq_read |-> dlq_read]
    /\ UNCHANGED <<shutdown, at_shutdown>>
    /\ UNCHANGED <<relay_vars, idem_vars, classify_vars, consumer_vars, hook_vars, limiter_vars, pure_vars, publisher_vars>>

\* ctrl_c: the graceful shutdown of the server sends true on the channel;
\* the requests in flight are still answered
Shutdown ==
    /\ ~shutdown
    /\ shutdown' = TRUE
    /\ at_shutdown' = [at |-> now, due |-> DueEvents(pending_events, now)]
    /\ UNCHANGED last_ready
    /\ UNCHANGED <<relay_vars, idem_vars, classify_vars, consumer_vars, hook_vars, limiter_vars, pure_vars, publisher_vars>>

ReadyStep == \E pending_read \in BOOLEAN, dlq_read \in BOOLEAN :
                 Ready(pending_read, dlq_read)

NextReady ==
    \/ IngressStep
    \/ WorkerWake
    \/ WorkerPop
    \/ WorkerProcessOk
    \/ Tick
    \/ Shutdown
    \/ ReadyStep

SpecReady == Init /\ [][NextReady]_vars

(***************************************************************************)
(* SourceRateLimiter (src/src/middleware.rs).                              *)
(***************************************************************************)
saturating_add(a, b) == Min(a + b, CountMax)

\* Faulty variant of allow: the window of another minute is kept as it is.
allow_NoReset(source, now_epoch, limit, table) ==
    LET now_minute == TruncDiv(now_epoch, SECONDS_PER_MINUTE)
        entry == IF source \in DOMAIN table
                 THEN table[source]
                 ELSE [minute_bucket |-> now_minute, count |-> 0]
    IN  IF entry.count >= limit
        THEN [windows |-> Put(table, source, entry), result |-> FALSE]
        ELSE [windows |-> Put(table, source,
                              [entry EXCEPT !.count = saturating_add(entry.count, 1)]),
              result |-> TRUE]

\* SourceRateLimiter::allow: the result and the map after the call.  The
\* lock cannot be poisoned: nothing panics while it is held.
allow(source, now_epoch, limit, table) ==
    LET now_minute == TruncDiv(now_epoch, SECONDS_PER_MINUTE)
        inserted == IF source \in DOMAIN table
                    THEN table[source]
                    ELSE [minute_bucket |-> now_minute, count |-> 0]
        entry == IF inserted.minute_bucket # now_minute
                 THEN [minute_bucket |-> now_minute, count |-> 0]
                 ELSE inserted
    IN  IF entry.count >= limit
        THEN [windows |-> Put(table, source, entry), result |-> FALSE]
        ELSE [windows |-> Put(table, source,
                              [entry EXCEPT !.count = saturating_add(entry.count, 1)]),
              result |-> TRUE]

\* one call of allow; the time is an argument, any i64
Allow(source, now_epoch) ==
    /\ last_allow.seq < MaxAllowCalls
    /\ LET r == allow(source, now_epoch, limit_per_minute, windows)
           w == <<source, MinuteOf(now_epoch)>>
       IN  /\ windows' = r.windows
           /\ last_allow' = [now_epoch |-> now_epoch, result |-> r.result,
                             source |-> source, seq |-> last_allow.seq + 1]
           /\ allowed_in' = IF r.result
                            THEN [allowed_in EXCEPT ![w] = @ + 1]
                            ELSE allowed_in
           /\ ordered' = (ordered /\ now_epoch >= last_allow.now_epoch)
    /\ UNCHANGED limit_per_minute
    /\ UNCHANGED <<relay_vars, idem_vars, classify_vars, consumer_vars, hook_vars, ready_vars, pure_vars, publisher_vars>>

\* SourceRateLimiter::new(limit_per_minute): an empty map
InitLimiter ==
    /\ limit_per_minute \in 0..CountMax
    /\ windows = EmptyTable
    /\ last_allow = NoAllow
    /\ allowed_in = NoneAllowed
    /\ ordered = TRUE
    \* not exercised
    /\ kc_max_retries = 0
    /\ kc_pc = "recv"
    /\ kc_offset = 0
    /\ kc_attempt = 0
    /\ kc_committed = 0
    /\ kc_forwarded = {}
    /\ kc_forwards = EmptyTable
    /\ kc_dlq_topic = EmptyTable
    /\ kc_commit_calls = {}
    /\ kc_errors = EmptyTable
    /\ gateway = Status(200)
    /\ outcome_embedded = "none"
    /\ outcome_consumer = "none"
    /\ pending_events = EmptyTable
    /\ dlq_events = EmptyTable
    /\ dedup_index = EmptyTable
    /\ cooldown_index = EmptyTable
    /\ now = 0
    /\ forward_max_attempts = 0
    /\ worker_pc = "wait"
    /\ inflight = NoEvent
    /\ forwarded_total = [s \in Sources |-> 0]
    /\ dropped_total = [l \in Routes \X DropReasons |-> 0]
    /\ next_event_id = 1
    /\ delivered = {}
    /\ hist = EmptyTable
    /\ replays = 0
    /\ dedup_expirations = EmptyTable
    /\ cooldown_expirations = EmptyTable
    /\ side_dedup_index = EmptyTable
    /\ side_cooldown_index = EmptyTable
    /\ side_pending = EmptyTable
    /\ call = NoCall
    /\ calls = 0
    /\ passes = [st \in {"enqueue", "check"} |-> [k \in CallDedupKeys |-> -1]]
    /\ admits = [st \in {"enqueue", "check"} |-> [k \in {"c1", "c2"} |-> {}]]
    /\ monotone = TRUE
    /\ cooled = [st \in {"enqueue", "check"} |-> {}]
    /\ prev_cooled = [st \in {"enqueue", "check"} |-> FALSE]
    /\ threads = <<>>
    /\ locks = [dedup |-> TRUE, cooldown |-> TRUE]
    /\ aligned = TRUE
    /\ last_hook = NoHook
    /\ enqueued = EmptyTable
    /\ admin_token = None
    /\ last_admin = NoAdmin
    /\ shutdown = FALSE
    /\ last_ready = NoReady
    /\ at_shutdown = NoShutdown
    /\ fn_args = NoArgs
    /\ fn_result = NoResult
    /\ max_retries = 0
    /\ backoff_base_ms = 0
    /\ backoff_max_ms = 0
    /\ pub_pc = "recv"
    /\ pub_job = 0
    /\ attempt = 0
    /\ slept = <<>>
    /\ published = EmptyTable
    /\ logged = {}

AllowStep == \E source \in Routes, now_epoch \in AllowTimes : Allow(source, now_epoch)

NextLimiter == AllowStep

SpecLimiter == InitLimiter /\ [][NextLimiter]_vars

(***************************************************************************)
(* The three backoff functions on every base, maximum and attempt index.   *)
(***************************************************************************)
MaxBackoffIndex == MaxExponent + 2

\* the functions are called for the attempts of one retry loop in turn
Backoff ==
    /\ fn_args.fn = "backoff"
    /\ fn_args.attempt_index <= MaxBackoffIndex
    /\ fn_result' = [compute_backoff_seconds |->
                         compute_backoff_seconds(fn_args.base, fn_args.max,
                                                 fn_args.attempt_index),
                     retry_backoff_ms |->
                         retry_backoff_ms(fn_args.base, fn_args.max,
                                          fn_args.attempt_index),
                     attempt_index |-> fn_args.attempt_index,
                     retry_backoff_seconds |->
                         retry_backoff_seconds(fn_args.base, fn_args.max,
                                               fn_args.attempt_index),
                     fn |-> "backoff"]
    /\ fn_args' = [fn_args EXCEPT !.attempt_index = @ + 1]
    /\ UNCHANGED <<relay_vars, idem_vars, classify_vars, consumer_vars, hook_vars, ready_vars, limiter_vars, publisher_vars>>

\* every configured base and maximum of the u64 range, first attempt
InitBackoff ==
    /\ fn_args \in [attempt_index : {0}, fn : {"backoff"},
                   base : 0..U64Max, max : 0..U64Max]
    /\ fn_result = NoResult
    \* not exercised
    /\ kc_max_retries = 0
    /\ kc_pc = "recv"
    /\ kc_offset = 0
    /\ kc_attempt = 0
    /\ kc_committed = 0
    /\ kc_forwarded = {}
    /\ kc_forwards = EmptyTable
    /\ kc_dlq_topic = EmptyTable
    /\ kc_commit_calls = {}
    /\ kc_errors = EmptyTable
    /\ gateway = Status(200)
    /\ outcome_embedded = "none"
    /\ outcome_consumer = "none"
    /\ pending_events = EmptyTable
    /\ dlq_events = EmptyTable
    /\ dedup_index = EmptyTable
    /\ cooldown_index = EmptyTable
    /\ now = 0
    /\ forward_max_attempts = 0
    /\ worker_pc = "wait"
    /\ inflight = NoEvent
    /\ forwarded_total = [s \in Sources |-> 0]
    /\ dropped_total = [l \in Routes \X DropReasons |-> 0]
    /\ next_event_id = 1
    /\ delivered = {}
    /\ hist = EmptyTable
    /\ replays = 0
    /\ dedup_expirations = EmptyTable
    /\ cooldown_expirations = EmptyTable
    /\ side_dedup_index = EmptyTable
    /\ side_cooldown_index = EmptyTable
    /\ side_pending = EmptyTable
    /\ call = NoCall
    /\ calls = 0
    /\ passes = [st \in {"enqueue", "check"} |-> [k \in CallDedupKeys |-> -1]]
    /\ admits = [st \in {"enqueue", "check"} |-> [k \in {"c1", "c2"} |-> {}]]
    /\ monotone = TRUE
    /\ cooled = [st \in {"enqueue", "check"} |-> {}]
    /\ prev_cooled = [st \in {"enqueue", "check"} |-> FALSE]
    /\ threads = <<>>
    /\ locks = [dedup |-> TRUE, cooldown |-> TRUE]
    /\ aligned = TRUE
    /\ last_hook = NoHook
    /\ enqueued = EmptyTable
    /\ admin_token = None
    /\ last_admin = NoAdmin
    /\ shutdown = FALSE
    /\ last_ready = NoReady
    /\ at_shutdown = NoShutdown
    /\ limit_per_minute = 0
    /\ windows = EmptyTable
    /\ last_allow = NoAllow
    /\ allowed_in = NoneAllowed
    /\ ordered = TRUE
    /\ max_retries = 0
    /\ backoff_base_ms = 0
    /\ backoff_max_ms = 0
    /\ pub_pc = "recv"
    /\ pub_job = 0
    /\ attempt = 0
    /\ slept = <<>>
    /\ published = EmptyTable
    /\ logged = {}

NextBackoff == Backoff

SpecBackoff == InitBackoff /\ [][NextBackoff]_vars

(***************************************************************************)
(* src/src/timestamps.rs.  i64 is scaled to I64Bits bits; the threshold    *)
(* 10_000_000_000 and the divisor 1000 are scaled with it.  The build      *)
(* profile is not part of the sources: an overflow panics with overflow    *)
(* checks and wraps around without them.                                   *)
(***************************************************************************)
I64Bits == 5
MillisThreshold == 7
MillisPerSecond == 2
I64Min == 0 - Pow2(I64Bits - 1)
I64Max == Pow2(I64Bits - 1) - 1
I64 == I64Min..I64Max
Windows == (0 - 1)..2

wrapping(x) == ((x - I64Min) % Pow2(I64Bits)) + I64Min

\* the values of the field webhookTimestamp: absent, a JSON integer of the
\* i64 range, an integer above it, a string that parses as i64, any other
\* string, and a value of another type
TimestampFields ==
    {[kind |-> k, raw |-> 0] : k \in {"absent", "unsigned", "text", "other"}}
        \cup {[kind |-> k, raw |-> v] : k \in {"integer", "numeric"}, v \in I64}

\* extract_linear_webhook_timestamp_epoch: None, or Some(seconds)
extract_linear_webhook_timestamp_epoch(field) ==
    IF field.kind \in {"integer", "numeric"}
    THEN [value |-> IF field.raw > MillisThreshold
                    THEN TruncDiv(field.raw, MillisPerSecond)
                    ELSE field.raw,
          some |-> TRUE]
    ELSE [value |-> 0, some |-> FALSE]

\* verify_linear_timestamp_window: "true", "false", or "panic" where the
\* subtraction or abs() overflows in a build with overflow checks
verify_linear_timestamp_window(field, now_epoch, window_seconds, enforce_check, overflow_checks) ==
    LET ts == extract_linear_webhook_timestamp_epoch(field)
        difference == wrapping(now_epoch - ts.value)
        abs == IF difference = I64Min THEN I64Min
               ELSE IF difference < 0 THEN 0 - difference ELSE difference
    IN  IF ~enforce_check THEN "true"
        ELSE IF ~ts.some THEN "false"
        ELSE IF overflow_checks /\ (now_epoch - ts.value \notin I64 \/ difference = I64Min)
             THEN "panic"
        ELSE IF abs <= window_seconds THEN "true" ELSE "false"

VerifyTimestamp ==
    /\ fn_args.fn = "timestamp"
    /\ fn_result = NoResult
    /\ fn_result' = [value |-> verify_linear_timestamp_window(
                                   fn_args.field, fn_args.now_epoch,
                                   fn_args.window_seconds, fn_args.enforce_check,
                                   fn_args.overflow_checks),
                     fn |-> "timestamp"]
    /\ UNCHANGED fn_args
    /\ UNCHANGED <<relay_vars, idem_vars, classify_vars, consumer_vars, hook_vars, ready_vars, limiter_vars, publisher_vars>>

\* every payload field, clock, window and setting
InitTimestamp ==
    /\ fn_args \in [now_epoch : I64, fn : {"timestamp"},
                   field : TimestampFields, window_seconds : Windows,
                   enforce_check : BOOLEAN, overflow_checks : BOOLEAN]
    /\ fn_result = NoResult
    \* not exercised
    /\ kc_max_retries = 0
    /\ kc_pc = "recv"
    /\ kc_offset = 0
    /\ kc_attempt = 0
    /\ kc_committed = 0
    /\ kc_forwarded = {}
    /\ kc_forwards = EmptyTable
    /\ kc_dlq_topic = EmptyTable
    /\ kc_commit_calls = {}
    /\ kc_errors = EmptyTable
    /\ gateway = Status(200)
    /\ outcome_embedded = "none"
    /\ outcome_consumer = "none"
    /\ pending_events = EmptyTable
    /\ dlq_events = EmptyTable
    /\ dedup_index = EmptyTable
    /\ cooldown_index = EmptyTable
    /\ now = 0
    /\ forward_max_attempts = 0
    /\ worker_pc = "wait"
    /\ inflight = NoEvent
    /\ forwarded_total = [s \in Sources |-> 0]
    /\ dropped_total = [l \in Routes \X DropReasons |-> 0]
    /\ next_event_id = 1
    /\ delivered = {}
    /\ hist = EmptyTable
    /\ replays = 0
    /\ dedup_expirations = EmptyTable
    /\ cooldown_expirations = EmptyTable
    /\ side_dedup_index = EmptyTable
    /\ side_cooldown_index = EmptyTable
    /\ side_pending = EmptyTable
    /\ call = NoCall
    /\ calls = 0
    /\ passes = [st \in {"enqueue", "check"} |-> [k \in CallDedupKeys |-> -1]]
    /\ admits = [st \in {"enqueue", "check"} |-> [k \in {"c1", "c2"} |-> {}]]
    /\ monotone = TRUE
    /\ cooled = [st \in {"enqueue", "check"} |-> {}]
    /\ prev_cooled = [st \in {"enqueue", "check"} |-> FALSE]
    /\ threads = <<>>
    /\ locks = [dedup |-> TRUE, cooldown |-> TRUE]
    /\ aligned = TRUE
    /\ last_hook = NoHook
    /\ enqueued = EmptyTable
    /\ admin_token = None
    /\ last_admin = NoAdmin
    /\ shutdown = FALSE
    /\ last_ready = NoReady
    /\ at_shutdown = NoShutdown
    /\ limit_per_minute = 0
    /\ windows = EmptyTable
    /\ last_allow = NoAllow
    /\ allowed_in = NoneAllowed
    /\ ordered = TRUE
    /\ max_retries = 0
    /\ backoff_base_ms = 0
    /\ backoff_max_ms = 0
    /\ pub_pc = "recv"
    /\ pub_job = 0
    /\ attempt = 0
    /\ slept = <<>>
    /\ published = EmptyTable
    /\ logged = {}

NextTimestamp == VerifyTimestamp

SpecTimestamp == InitTimestamp /\ [][NextTimestamp]_vars

(***************************************************************************)
(* KafkaPublisher::publish and run_publish_worker (src/src/producer.rs).   *)
(***************************************************************************)
MaxJobs == 2
PublishBackoffs == {0, 1, 3, U64Max}

\* rx.recv() hands the next job to publish
PublishRecv ==
    /\ pub_pc = "recv"
    /\ pub_job < MaxJobs
    /\ pub_pc' = "send"
    /\ pub_job' = pub_job + 1
    /\ attempt' = 0
    /\ slept' = <<>>
    /\ UNCHANGED <<max_retries, backoff_base_ms, backoff_max_ms, published, logged>>
    /\ UNCHANGED <<relay_vars, idem_vars, classify_vars, consumer_vars, hook_vars, ready_vars, limiter_vars, pure_vars>>

\* Faulty variant of the loop of publish: the failed sends are counted
\* from the second one on.
publish_iteration_CountsLate(send_ok, attempts, retries, base_ms, max_ms) ==
    IF send_ok
    THEN [attempt |-> attempts, returns |-> "Ok", backoff |-> 0]
    ELSE LET failed == saturating_add(attempts, 1)
         IN  IF attempts >= retries
             THEN [attempt |-> failed, returns |-> "Err", backoff |-> 0]
             ELSE [attempt |-> failed, returns |-> "none",
                   backoff |-> retry_backoff_ms(base_ms, max_ms,
                                                IF failed >= 1 THEN failed - 1 ELSE 0)]

\* one iteration of the loop of publish: a send, and after a failed one
\* the count, the test against max_retries and the backoff to sleep
publish_iteration(send_ok, attempts, retries, base_ms, max_ms) ==
    IF send_ok
    THEN [attempt |-> attempts, returns |-> "Ok", backoff |-> 0]
    ELSE LET failed == saturating_add(attempts, 1)
         IN  IF failed >= retries
             THEN [attempt |-> failed, returns |-> "Err", backoff |-> 0]
             ELSE [attempt |-> failed, returns |-> "none",
                   backoff |-> retry_backoff_ms(base_ms, max_ms,
                                                IF failed >= 1 THEN failed - 1 ELSE 0)]

\* one iteration inside publish; when publish returns, the worker logs an
\* error and takes the next job
PublishSend(send_ok) ==
    /\ pub_pc = "send"
    /\ LET r == publish_iteration(send_ok, attempt, max_retries,
                                  backoff_base_ms, backoff_max_ms)
       IN  /\ attempt' = r.attempt
           /\ IF r.returns = "none"
              THEN /\ slept' = Append(slept, r.backoff)
                   /\ UNCHANGED <<pub_pc, published, logged>>
              ELSE /\ pub_pc' = "recv"
                   /\ published' = Put(published, pub_job,
                                       [returns |-> r.returns, failed |-> r.attempt])
                   /\ logged' = IF r.returns = "Err" THEN logged \cup {pub_job} ELSE logged
                   /\ UNCHANGED slept
    /\ UNCHANGED <<max_retries, backoff_base_ms, backoff_max_ms, pub_job>>
    /\ UNCHANGED <<relay_vars, idem_vars, classify_vars, consumer_vars, hook_vars, ready_vars, limiter_vars, pure_vars>>

\* KafkaPublisher::from_config with any retry limit and backoff; the worker waits for a job
InitPublisher ==
    /\ max_retries \in 0..CountMax
    /\ backoff_base_ms \in PublishBackoffs
    /\ backoff_max_ms \in PublishBackoffs
    /\ pub_pc = "recv"
    /\ pub_job = 0
    /\ attempt = 0
    /\ slept = <<>>
    /\ published = EmptyTable
    /\ logged = {}
    \* not exercised
    /\ kc_max_retries = 0
    /\ kc_pc = "recv"
    /\ kc_offset = 0
    /\ kc_attempt = 0
    /\ kc_committed = 0
    /\ kc_forwarded = {}
    /\ kc_forwards = EmptyTable
    /\ kc_dlq_topic = EmptyTable
    /\ kc_commit_calls = {}
    /\ kc_errors = EmptyTable
    /\ gateway = Status(200)
    /\ outcome_embedded = "none"
    /\ outcome_consumer = "none"
    /\ pending_events = EmptyTable
    /\ dlq_events = EmptyTable
    /\ dedup_index = EmptyTable
    /\ cooldown_index = EmptyTable
    /\ now = 0
    /\ forward_max_attempts = 0
    /\ worker_pc = "wait"
    /\ inflight = NoEvent
    /\ forwarded_total = [s \in Sources |-> 0]
    /\ dropped_total = [l \in Routes \X DropReasons |-> 0]
    /\ next_event_id = 1
    /\ delivered = {}
    /\ hist = EmptyTable
    /\ replays = 0
    /\ dedup_expirations = EmptyTable
    /\ cooldown_expirations = EmptyTable
    /\ side_dedup_index = EmptyTable
    /\ side_cooldown_index = EmptyTable
    /\ side_pending = EmptyTable
    /\ call = NoCall
    /\ calls = 0
    /\ passes = [st \in {"enqueue", "check"} |-> [k \in CallDedupKeys |-> -1]]
    /\ admits = [st \in {"enqueue", "check"} |-> [k \in {"c1", "c2"} |-> {}]]
    /\ monotone = TRUE
    /\ cooled = [st \in {"enqueue", "check"} |-> {}]
    /\ prev_cooled = [st \in {"enqueue", "check"} |-> FALSE]
    /\ threads = <<>>
    /\ locks = [dedup |-> TRUE, cooldown |-> TRUE]
    /\ aligned = TRUE
    /\ last_hook = NoHook
    /\ enqueued = EmptyTable
    /\ admin_token = None
    /\ last_admin = NoAdmin
    /\ shutdown = FALSE
    /\ last_ready = NoReady
    /\ at_shutdown = NoShutdown
    /\ limit_per_minute = 0
    /\ windows = EmptyTable
    /\ last_allow = NoAllow
    /\ allowed_in = NoneAllowed
    /\ ordered = TRUE
    /\ fn_args = NoArgs
    /\ fn_result = NoResult

PublishSendStep == \E send_ok \in BOOLEAN : PublishSend(send_ok)

NextPublisher ==
    \/ PublishRecv
    \/ PublishSendStep

SpecPublisher == InitPublisher /\ [][NextPublisher]_vars

(***************************************************************************)
(* relay_core::sanitize (src/crates/relay-core/src/sanitize.rs), the       *)
(* annotate-only sanitizer.  A JSON value is a record with its type; a     *)
(* string is told by its length in bytes and by the number of injection    *)
(* patterns that match it.  Objects are visited in an order fixed by their *)
(* keys.                                                                   *)
(***************************************************************************)
ScanThreshold == 10
MaxArrayLen == 2
MatchCounts == {0, 2}

JString(text) == [text |-> text, type |-> "string"]
JObject(fields) == [type |-> "object", fields |-> fields]
JArray(items) == [type |-> "array", items |-> items]
JBool(b) == [value |-> b, type |-> "bool"]

JStrings == {JString([bytes |-> n, hits |-> h]) :
                 n \in {ScanThreshold, ScanThreshold + 1}, h \in MatchCounts}
LongStrings == {s \in JStrings : s.text.bytes > ScanThreshold}

\* the keys of the payloads: an empty key, a plain one, one with a dot, and
\* the two keys the sanitizer writes; b is the key of the nested objects
TopKeys == {"", "a", "a.b"}
ReservedKeys == {"_sanitized", "_flags"}
NestedKeys == {"b"}

ArraysUpTo(n) == UNION {[1..len -> LongStrings] : len \in 0..n}
NestedValues ==
    JStrings
        \cup {JObject(f) : f \in UNION {[D -> JStrings] : D \in SUBSET NestedKeys}}
        \cup {JArray(items) : items \in ArraysUpTo(MaxArrayLen)}

\* the payloads: objects over the keys, with or without a value of the
\* sender's under each reserved key
JPayloads ==
    {JObject(f @@ g) :
        f \in UNION {[D -> NestedValues] : D \in SUBSET TopKeys},
        g \in UNION {[D -> {JString([bytes |-> ScanThreshold + 1, hits |-> 0])}] :
                         D \in SUBSET ReservedKeys}}

\* detect_injections: the number of patterns that match
detect_injections(text) == IF text.bytes = 0 THEN 0 ELSE text.hits

RECURSIVE extract_all_strings(_, _)
RECURSIVE extract_fields(_, _, _)
RECURSIVE extract_items(_, _, _)

\* extract_all_strings, arm Value::Object: the entries in turn
extract_fields(fields, keys, path) ==
    IF keys = {} THEN <<>>
    ELSE LET key == CHOOSE k \in keys : TRUE
             next_path == IF path = "" THEN key ELSE path \o "." \o key
         IN  extract_all_strings(fields[key], next_path)
                 \o extract_fields(fields, keys \ {key}, path)

\* extract_all_strings, arm Value::Array: the items from index on
extract_items(items, index, path) ==
    IF index > Len(items) THEN <<>>
    ELSE LET next_path == IF path = "" THEN ToString(index - 1)
                          ELSE path \o "." \o ToString(index - 1)
         IN  extract_all_strings(items[index], next_path)
                 \o extract_items(items, index + 1, path)

\* extract_all_strings: the pairs (path, text) pushed to out
extract_all_strings(value, path) ==
    IF value.type = "string"
    THEN IF value.text.bytes > ScanThreshold THEN << <<path, value.text>> >> ELSE <<>>
    ELSE IF value.type = "object"
    THEN extract_fields(value.fields, DOMAIN value.fields, path)
    ELSE IF value.type = "array"
    THEN extract_items(value.items, 1, path)
    ELSE <<>>

\* find_all_hits: the pairs (path, number of hits) of the strings with hits
find_all_hits(payload) ==
    LET strings == extract_all_strings(payload, "")
        flagged == SelectSeq(strings, LAMBDA s : detect_injections(s[2]) > 0)
    IN  [i \in 1..Len(flagged) |-> <<flagged[i][1], detect_injections(flagged[i][2])>>]

\* relay_core::sanitize::sanitize_payload
relay_core_sanitize_payload(source, payload) ==
    IF source \notin {"github", "linear"}
    THEN [value |-> JBool(FALSE), error |-> "unsupported source", ok |-> FALSE]
    ELSE IF payload.type # "object"
    THEN [value |-> JBool(FALSE), error |-> "sanitized payload is not an object",
          ok |-> FALSE]
    ELSE LET all_hits == find_all_hits(payload)
             marked == Put(payload.fields, "_sanitized", JBool(TRUE))
             flags == [i \in 1..Len(all_hits) |->
                          [field |-> all_hits[i][1], count |-> all_hits[i][2]]]
         IN  [value |-> JObject(IF Len(all_hits) > 0
                                THEN Put(marked, "_flags", JArray(flags))
                                ELSE marked),
              error |-> "", ok |-> TRUE]

Sanitize ==
    /\ fn_args.fn = "sanitize"
    /\ fn_result = NoResult
    /\ fn_result' = [value |-> relay_core_sanitize_payload(fn_args.source,
                                                            fn_args.payload),
                     fn |-> "sanitize"]
    /\ UNCHANGED fn_args
    /\ UNCHANGED <<relay_vars, idem_vars, classify_vars, consumer_vars, hook_vars, ready_vars, limiter_vars, publisher_vars>>

\* every payload of the model under a supported source and under another
InitSanitize ==
    /\ fn_args \in [fn : {"sanitize"}, source : {"github", "linear", "gitlab"}, payload : JPayloads]
    /\ fn_result = NoResult
    \* not exercised
    /\ kc_max_retries = 0
    /\ kc_pc = "recv"
    /\ kc_offset = 0
    /\ kc_attempt = 0
    /\ kc_committed = 0
    /\ kc_forwarded = {}
    /\ kc_forwards = EmptyTable
    /\ kc_dlq_topic = EmptyTable
    /\ kc_commit_calls = {}
    /\ kc_errors = EmptyTable
    /\ gateway = Status(200)
    /\ outcome_embedded = "none"
    /\ outcome_consumer = "none"
    /\ pending_events = EmptyTable
    /\ dlq_events = EmptyTable
    /\ dedup_index = EmptyTable
    /\ cooldown_index = EmptyTable
    /\ now = 0
    /\ forward_max_attempts = 0
    /\ worker_pc = "wait"
    /\ inflight = NoEvent
    /\ forwarded_total = [s \in Sources |-> 0]
    /\ dropped_total = [l \in Routes \X DropReasons |-> 0]
    /\ next_event_id = 1
    /\ delivered = {}
    /\ hist = EmptyTable
    /\ replays = 0
    /\ dedup_expirations = EmptyTable
    /\ cooldown_expirations = EmptyTable
    /\ side_dedup_index = EmptyTable
    /\ side_cooldown_index = EmptyTable
    /\ side_pending = EmptyTable
    /\ call = NoCall
    /\ calls = 0
    /\ passes = [st \in {"enqueue", "check"} |-> [k \in CallDedupKeys |-> -1]]
    /\ admits = [st \in {"enqueue", "check"} |-> [k \in {"c1", "c2"} |-> {}]]
    /\ monotone = TRUE
    /\ cooled = [st \in {"enqueue", "check"} |-> {}]
    /\ prev_cooled = [st \in {"enqueue", "check"} |-> FALSE]
    /\ threads = <<>>
    /\ locks = [dedup |-> TRUE, cooldown |-> TRUE]
    /\ aligned = TRUE
    /\ last_hook = NoHook
    /\ enqueued = EmptyTable
    /\ admin_token = None
    /\ last_admin = NoAdmin
    /\ shutdown = FALSE
    /\ last_ready = NoReady
    /\ at_shutdown = NoShutdown
    /\ limit_per_minute = 0
    /\ windows = EmptyTable
    /\ last_allow = NoAllow
    /\ allowed_in = NoneAllowed
    /\ ordered = TRUE
    /\ max_retries = 0
    /\ backoff_base_ms = 0
    /\ backoff_max_ms = 0
    /\ pub_pc = "recv"
    /\ pub_job = 0
    /\ attempt = 0
    /\ slept = <<>>
    /\ published = EmptyTable
    /\ logged = {}

NextSanitize == Sanitize

SpecSanitize == InitSanitize /\ [][NextSanitize]_vars

(***************************************************************************)
(* src/src/signatures.rs.  A string is the sequence of its characters.     *)
(* The hex digest is shortened to two characters (64 in the code) and the  *)
(* prefix "sha256=" to "s=" with it; the headers are all strings of up to  *)
(* a prefix, a digest and one more character.                              *)
(***************************************************************************)
SignaturePrefix == <<"s", "=">>
HeaderChars == {" ", "s", "S", "=", "a", "A", "2"}
Secrets == {"k1", "k2"}
Bodies == {"p1", "p2"}

\* compute_hmac_sha256_hex: lower-case hex, another digest for another
\* secret or payload
compute_hmac_sha256_hex(secret, payload) ==
    IF secret = "k1"
    THEN IF payload = "p1" THEN <<"a", "2">> ELSE <<"2", "a">>
    ELSE IF payload = "p1" THEN <<"a", "a">> ELSE <<"2", "2">>

MaxHeaderLen == Len(SignaturePrefix) + Len(compute_hmac_sha256_hex("k1", "p1")) + 1
Headers == UNION {[1..n -> HeaderChars] : n \in 0..MaxHeaderLen}

is_whitespace(character) == character = " "

to_ascii_lowercase(character) ==
    IF character = "A" THEN "a" ELSE IF character = "S" THEN "s" ELSE character

\* str::trim
RECURSIVE trim_start(_)
trim_start(text) ==
    IF text # <<>> /\ is_whitespace(Head(text)) THEN trim_start(Tail(text)) ELSE text

RECURSIVE trim_end(_)
trim_end(text) ==
    IF text # <<>> /\ is_whitespace(text[Len(text)])
    THEN trim_end(SubSeq(text, 1, Len(text) - 1))
    ELSE text

trim(text) == trim_end(trim_start(text))

\* str::strip_prefix(..).unwrap_or(text)
strip_prefix_or(text, prefix) ==
    IF Len(text) >= Len(prefix) /\ SubSeq(text, 1, Len(prefix)) = prefix
    THEN SubSeq(text, Len(prefix) + 1, Len(text))
    ELSE text

\* Faulty variant of normalize_signature: the prefix is looked for after
\* the lowercasing.
normalize_signature_LowercasesFirst(raw) ==
    LET lowered == [i \in 1..Len(trim(raw)) |-> to_ascii_lowercase(trim(raw)[i])]
        stripped == strip_prefix_or(lowered, SignaturePrefix)
    IN  SelectSeq(stripped, LAMBDA character : ~is_whitespace(character))

\* normalize_signature
normalize_signature(raw) ==
    LET stripped == strip_prefix_or(trim(raw), SignaturePrefix)
        filtered == SelectSeq(stripped, LAMBDA character : ~is_whitespace(character))
    IN  [i \in 1..Len(filtered) |-> to_ascii_lowercase(filtered[i])]

\* constant_time_hex_equals
constant_time_hex_equals(left, right) ==
    IF Len(left) # Len(right) THEN FALSE ELSE left = right

verify_github_signature(secret, payload, signature_header) ==
    LET expected == compute_hmac_sha256_hex(secret, payload)
        provided == normalize_signature(signature_header)
    IN  constant_time_hex_equals(provided, expected)

verify_linear_signature(secret, payload, signature_header) ==
    LET expected == compute_hmac_sha256_hex(secret, payload)
        provided == normalize_signature(signature_header)
    IN  constant_time_hex_equals(provided, expected)

VerifySignature ==
    /\ fn_args.fn = "signature"
    /\ fn_result = NoResult
    /\ fn_result' = [fn |-> "signature",
                     github |-> verify_github_signature(fn_args.secret, fn_args.payload,
                                                        fn_args.header),
                     linear |-> verify_linear_signature(fn_args.secret, fn_args.payload,
                                                        fn_args.header)]
    /\ UNCHANGED fn_args
    /\ UNCHANGED <<relay_vars, idem_vars, classify_vars, consumer_vars, hook_vars, ready_vars, limiter_vars, publisher_vars>>

\* every header of the model against the digest under either secret
InitSignature ==
    /\ fn_args \in [fn : {"signature"}, payload : Bodies, secret : Secrets,
                   header : Headers]
    /\ fn_result = NoResult
    \* not exercised
    /\ kc_max_retries = 0
    /\ kc_pc = "recv"
    /\ kc_offset = 0
    /\ kc_attempt = 0
    /\ kc_committed = 0
    /\ kc_forwarded = {}
    /\ kc_forwards = EmptyTable
    /\ kc_dlq_topic = EmptyTable
    /\ kc_commit_calls = {}
    /\ kc_errors = EmptyTable
    /\ gateway = Status(200)
    /\ outcome_embedded = "none"
    /\ outcome_consumer = "none"
    /\ pending_events = EmptyTable
    /\ dlq_events = EmptyTable
    /\ dedup_index = EmptyTable
    /\ cooldown_index = EmptyTable
    /\ now = 0
    /\ forward_max_attempts = 0
    /\ worker_pc = "wait"
    /\ inflight = NoEvent
    /\ forwarded_total = [s \in Sources |-> 0]
    /\ dropped_total = [l \in Routes \X DropReasons |-> 0]
    /\ next_event_id = 1
    /\ delivered = {}
    /\ hist = EmptyTable
    /\ replays = 0
    /\ dedup_expirations = EmptyTable
    /\ cooldown_expirations = EmptyTable
    /\ side_dedup_index = EmptyTable
    /\ side_cooldown_index = EmptyTable
    /\ side_pending = EmptyTable
    /\ call = NoCall
    /\ calls = 0
    /\ passes = [st \in {"enqueue", "check"} |-> [k \in CallDedupKeys |-> -1]]
    /\ admits = [st \in {"enqueue", "check"} |-> [k \in {"c1", "c2"} |-> {}]]
    /\ monotone = TRUE
    /\ cooled = [st \in {"enqueue", "check"} |-> {}]
    /\ prev_cooled = [st \in {"enqueue", "check"} |-> FALSE]
    /\ threads = <<>>
    /\ locks = [dedup |-> TRUE, cooldown |-> TRUE]
    /\ aligned = TRUE
    /\ last_hook = NoHook
    /\ enqueued = EmptyTable
    /\ admin_token = None
    /\ last_admin = NoAdmin
    /\ shutdown = FALSE
    /\ last_ready = NoReady
    /\ at_shutdown = NoShutdown
    /\ limit_per_minute = 0
    /\ windows = EmptyTable
    /\ last_allow = NoAllow
    /\ allowed_in = NoneAllowed
    /\ ordered = TRUE
    /\ max_retries = 0
    /\ backoff_base_ms = 0
    /\ backoff_max_ms = 0
    /\ pub_pc = "recv"
    /\ pub_job = 0
    /\ attempt = 0
    /\ slept = <<>>
    /\ published = EmptyTable
    /\ logged = {}

NextSignature == VerifySignature

SpecSignature == InitSignature /\ [][NextSignature]_vars

(***************************************************************************)
(* IdempotencyStore::check called by several threads at the same `now`.    *)
(* A call holds the lock of the dedup map for its dedup stage, releases    *)
(* it, and takes the lock of the cooldown map for its cooldown stage: each *)
(* stage is one step, and the steps of the calls interleave freely.        *)
(***************************************************************************)
MaxThreads == 3
Threads == 1..MaxThreads
ThreadDedupKeys == {"", "d1", "d2"}
ThreadCooldownKeys == {None, Some("c1")}

\* a call that has not started
Started(dedup_key, cooldown_key) ==
    [dedup_key |-> dedup_key, cooldown_key |-> cooldown_key, pc |-> "dedup",
     result |-> "none", past |-> FALSE]

\* Faulty variant of check_dedup_stage: the key is looked up and recorded
\* only by the call that finds the map empty.
check_dedup_stage_RecordsFirstOnly(dedup_key, cooldown_key, now_epoch, dedup) ==
    IF dedup_key = ""
    THEN [result |-> "Accept", past |-> FALSE, dedup |-> dedup]
    ELSE LET pruned == prune_expired(dedup, now_epoch)
         IN  IF dedup_key \in DOMAIN pruned /\ pruned[dedup_key] > now_epoch
             THEN [result |-> "Duplicate", past |-> FALSE, dedup |-> pruned]
             ELSE [result |-> IF ~cooldown_key.some \/ cooldown_key.key = ""
                              THEN "Accept" ELSE "none",
                   past |-> TRUE,
                   dedup |-> IF DOMAIN pruned = {}
                             THEN Put(pruned, dedup_key, now_epoch + dedup_ttl_seconds)
                             ELSE pruned]

\* check from its entry to the test of the cooldown key: the return for an
\* empty dedup key, the block that holds the dedup lock, and the returns
\* for a missing or empty cooldown key; result "none": the call goes on to
\* the cooldown stage
check_dedup_stage(dedup_key, cooldown_key, now_epoch, dedup) ==
    IF dedup_key = ""
    THEN [result |-> "Accept", past |-> FALSE, dedup |-> dedup]
    ELSE LET pruned == prune_expired(dedup, now_epoch)
         IN  IF dedup_key \in DOMAIN pruned /\ pruned[dedup_key] > now_epoch
             THEN [result |-> "Duplicate", past |-> FALSE, dedup |-> pruned]
             ELSE [result |-> IF ~cooldown_key.some \/ cooldown_key.key = ""
                              THEN "Accept" ELSE "none",
                   past |-> TRUE,
                   dedup |-> Put(pruned, dedup_key, now_epoch + dedup_ttl_seconds)]

\* check from the lock of the cooldown map to its return
check_cooldown_stage(cooldown_key, now_epoch, cooldown) ==
    LET cpruned == prune_expired(cooldown, now_epoch)
    IN  IF cooldown_key.key \in DOMAIN cpruned /\ cpruned[cooldown_key.key] > now_epoch
        THEN [result |-> "Cooldown", cooldown |-> cpruned]
        ELSE [result |-> "Accept",
              cooldown |-> Put(cpruned, cooldown_key.key, now_epoch + cooldown_seconds)]

\* thread t runs its dedup stage
CheckDedup(t) ==
    /\ t \in DOMAIN threads
    /\ threads[t].pc = "dedup"
    /\ LET s == check_dedup_stage(threads[t].dedup_key, threads[t].cooldown_key, now,
                                  dedup_expirations)
       IN  /\ dedup_expirations' = s.dedup
           /\ threads' = [threads EXCEPT ![t].result = s.result,
                                         ![t].past = s.past,
                                         ![t].pc = IF s.result = "none" THEN "cooldown"
                                                   ELSE "done"]
    /\ UNCHANGED <<cooldown_expirations, side_dedup_index, side_cooldown_index,
                   side_pending, call, calls, passes, admits, monotone, aligned,
                   cooled, prev_cooled, locks>>
    /\ UNCHANGED <<relay_vars, classify_vars, consumer_vars, hook_vars, ready_vars,
                   limiter_vars, pure_vars, publisher_vars>>

\* thread t runs its cooldown stage
CheckCooldown(t) ==
    /\ t \in DOMAIN threads
    /\ threads[t].pc = "cooldown"
    /\ LET s == check_cooldown_stage(threads[t].cooldown_key, now, cooldown_expirations)
       IN  /\ cooldown_expirations' = s.cooldown
           /\ threads' = [threads EXCEPT ![t].result = s.result, ![t].pc = "done"]
    /\ UNCHANGED <<dedup_expirations, side_dedup_index, side_cooldown_index,
                   side_pending, call, calls, passes, admits, monotone, aligned,
                   cooled, prev_cooled, locks>>
    /\ UNCHANGED <<relay_vars, classify_vars, consumer_vars, hook_vars, ready_vars,
                   limiter_vars, pure_vars, publisher_vars>>

CheckDedupStep == \E t \in Threads : CheckDedup(t)
CheckCooldownStep == \E t \in Threads : CheckCooldown(t)

\* the calls under way at one time `now`, on maps that are empty or hold the entries of a call with d1 and c1 at time 0
InitConcurrent ==
    /\ threads \in [Threads -> {Started(d, c) : d \in ThreadDedupKeys, c \in ThreadCooldownKeys}]
    /\ locks = [dedup |-> TRUE, cooldown |-> TRUE]
    /\ now \in CallTimes
    /\ dedup_expirations \in {EmptyTable, Put(EmptyTable, "d1", dedup_ttl_seconds)}
    /\ cooldown_expirations \in {EmptyTable, Put(EmptyTable, "c1", cooldown_seconds)}
    \* not exercised
    /\ kc_max_retries = 0
    /\ kc_pc = "recv"
    /\ kc_offset = 0
    /\ kc_attempt = 0
    /\ kc_committed = 0
    /\ kc_forwarded = {}
    /\ kc_forwards = EmptyTable
    /\ kc_dlq_topic = EmptyTable
    /\ kc_commit_calls = {}
    /\ kc_errors = EmptyTable
    /\ gateway = Status(200)
    /\ outcome_embedded = "none"
    /\ outcome_consumer = "none"
    /\ pending_events = EmptyTable
    /\ dlq_events = EmptyTable
    /\ dedup_index = EmptyTable
    /\ cooldown_index = EmptyTable
    /\ forward_max_attempts = 0
    /\ worker_pc = "wait"
    /\ inflight = NoEvent
    /\ forwarded_total = [s \in Sources |-> 0]
    /\ dropped_total = [l \in Routes \X DropReasons |-> 0]
    /\ next_event_id = 1
    /\ delivered = {}
    /\ hist = EmptyTable
    /\ replays = 0
    /\ side_dedup_index = EmptyTable
    /\ side_cooldown_index = EmptyTable
    /\ side_pending = EmptyTable
    /\ call = NoCall
    /\ calls = 0
    /\ passes = [st \in {"enqueue", "check"} |-> [k \in CallDedupKeys |-> -1]]
    /\ admits = [st \in {"enqueue", "check"} |-> [k \in {"c1", "c2"} |-> {}]]
    /\ monotone = TRUE
    /\ cooled = [st \in {"enqueue", "check"} |-> {}]
    /\ prev_cooled = [st \in {"enqueue", "check"} |-> FALSE]
    /\ aligned = TRUE
    /\ last_hook = NoHook
    /\ enqueued = EmptyTable
    /\ admin_token = None
    /\ last_admin = NoAdmin
    /\ shutdown = FALSE
    /\ last_ready = NoReady
    /\ at_shutdown = NoShutdown
    /\ limit_per_minute = 0
    /\ windows = EmptyTable
    /\ last_allow = NoAllow
    /\ allowed_in = NoneAllowed
    /\ ordered = TRUE
    /\ fn_args = NoArgs
    /\ fn_result = NoResult
    /\ max_retries = 0
    /\ backoff_base_ms = 0
    /\ backoff_max_ms = 0
    /\ pub_pc = "recv"
    /\ pub_job = 0
    /\ attempt = 0
    /\ slept = <<>>
    /\ published = EmptyTable
    /\ logged = {}

NextConcurrent ==
    \/ CheckDedupStep
    \/ CheckCooldownStep

SpecConcurrent == InitConcurrent /\ [][NextConcurrent]_vars

(***************************************************************************)
(* The admin routes of the relay: GET /admin/queue, GET /admin/dlq and     *)
(* POST /admin/dlq/replay/{event_id}.  Every handler asks                  *)
(* require_admin_auth first and returns its answer when it refuses.        *)
(***************************************************************************)
AdminTokens == {None, Some("t")}
\* the Authorization header as the handler reads it: "" when the header is
\* missing or is not text
AdminHeaders == {"", "Bearer t", "Bearer x", "bearer t"}
AdminRoutes == {"queue", "dlq", "replay"}

AdminAnswer(ok, status, body) == [ok |-> ok, status |-> status, body |-> body]

require_admin_auth_AnyHeader(token, auth_header) ==
    IF ~token.some
    THEN AdminAnswer(FALSE, 404, "admin endpoints disabled")
    ELSE IF auth_header = ""
         THEN AdminAnswer(FALSE, 401, "unauthorized")
         ELSE AdminAnswer(TRUE, 200, "")

require_admin_auth(token, auth_header) ==
    IF ~token.some
    THEN AdminAnswer(FALSE, 404, "admin endpoints disabled")
    ELSE LET expected == "Bearer " \o token.key
         IN  IF auth_header # expected
             THEN AdminAnswer(FALSE, 401, "unauthorized")
             ELSE AdminAnswer(TRUE, 200, "")

\* admin_queue, admin_dlq and admin_replay; the two listings only read the
\* store, the replay moves the DLQ row back to the pending table
AdminRequest(route, auth_header, event_id) ==
    /\ now <= MaxTime
    /\ route = "replay" => replays < MaxReplays
    /\ LET auth == require_admin_auth(admin_token, auth_header)
           r == replay_dlq_event(event_id, now, dlq_events, pending_events)
           acts == auth.ok /\ route = "replay"
       IN  /\ dlq_events' = IF acts THEN r.dlq ELSE dlq_events
           /\ pending_events' = IF acts THEN r.pending ELSE pending_events
           /\ IF acts /\ r.replayed
              THEN /\ hist' = [hist EXCEPT ![event_id] = NewHist]
                   /\ replays' = replays + 1
              ELSE UNCHANGED <<hist, replays>>
           /\ last_admin' =
                [route |-> route, header |-> auth_header,
                 status |-> IF ~auth.ok THEN auth.status
                            ELSE IF route = "replay" /\ ~r.replayed THEN 404 ELSE 200,
                 body |-> IF ~auth.ok THEN auth.body
                          ELSE IF route = "queue" THEN "pending,dlq"
                          ELSE IF route = "dlq" THEN "events"
                          ELSE IF r.replayed THEN "replayed:true" ELSE "replayed:false"]
    /\ UNCHANGED <<dedup_index, cooldown_index, now, forward_max_attempts,
                   worker_pc, inflight, forwarded_total, dropped_total,
                   next_event_id, delivered, admin_token, last_hook, enqueued>>
    /\ UNCHANGED <<idem_vars, classify_vars, consumer_vars, ready_vars, limiter_vars, pure_vars, publisher_vars>>

\* only the replay route has an event id in its path
AdminRequestStep ==
    \E route \in AdminRoutes, auth_header \in AdminHeaders :
        \E event_id \in IF route = "replay" THEN EventIds ELSE {1} :
            AdminRequest(route, auth_header, event_id)

\* the relay starts with an empty store and sends an event to the DLQ at its first failed forward; the admin token is set or not
InitAdmin ==
    /\ pending_events = EmptyTable
    /\ dlq_events = EmptyTable
    /\ dedup_index = EmptyTable
    /\ cooldown_index = EmptyTable
    /\ now = 0
    /\ forward_max_attempts = 1
    /\ worker_pc = "wait"
    /\ inflight = NoEvent
    /\ forwarded_total = [s \in Sources |-> 0]
    /\ dropped_total = [l \in Routes \X DropReasons |-> 0]
    /\ next_event_id = 1
    /\ delivered = {}
    /\ hist = EmptyTable
    /\ replays = 0
    /\ admin_token \in AdminTokens
    /\ last_admin = NoAdmin
    \* not exercised
    /\ kc_max_retries = 0
    /\ kc_pc = "recv"
    /\ kc_offset = 0
    /\ kc_attempt = 0
    /\ kc_committed = 0
    /\ kc_forwarded = {}
    /\ kc_forwards = EmptyTable
    /\ kc_dlq_topic = EmptyTable
    /\ kc_commit_calls = {}
    /\ kc_errors = EmptyTable
    /\ gateway = Status(200)
    /\ outcome_embedded = "none"
    /\ outcome_consumer = "none"
    /\ dedup_expirations = EmptyTable
    /\ cooldown_expirations = EmptyTable
    /\ side_dedup_index = EmptyTable
    /\ side_cooldown_index = EmptyTable
    /\ side_pending = EmptyTable
    /\ call = NoCall
    /\ calls = 0
    /\ passes = [st \in {"enqueue", "check"} |-> [k \in CallDedupKeys |-> -1]]
    /\ admits = [st \in {"enqueue", "check"} |-> [k \in {"c1", "c2"} |-> {}]]
    /\ monotone = TRUE
    /\ cooled = [st \in {"enqueue", "check"} |-> {}]
    /\ prev_cooled = [st \in {"enqueue", "check"} |-> FALSE]
    /\ threads = <<>>
    /\ locks = [dedup |-> TRUE, cooldown |-> TRUE]
    /\ aligned = TRUE
    /\ last_hook = NoHook
    /\ enqueued = EmptyTable
    /\ shutdown = FALSE
    /\ last_ready = NoReady
    /\ at_shutdown = NoShutdown
    /\ limit_per_minute = 0
    /\ windows = EmptyTable
    /\ last_allow = NoAllow
    /\ allowed_in = NoneAllowed
    /\ ordered = TRUE
    /\ fn_args = NoArgs
    /\ fn_result = NoResult
    /\ max_retries = 0
    /\ backoff_base_ms = 0
    /\ backoff_max_ms = 0
    /\ pub_pc = "recv"
    /\ pub_job = 0
    /\ attempt = 0
    /\ slept = <<>>
    /\ published = EmptyTable
    /\ logged = {}

NextAdmin ==
    \/ IngressStep
    \/ WorkerWake
    \/ WorkerPop
    \/ WorkerProcessOk
    \/ AdminRequestStep

SpecAdmin == InitAdmin /\ [][NextAdmin]_vars

(***************************************************************************)
(* The cooldown keys (keys.rs).  Strings are sequences of characters; the  *)
(* inputs are built from a letter, the slash of a repository's full name   *)
(* and the hyphen.                                                         *)
(***************************************************************************)
MaxKeyLen == 2
KeyChars == {"a", "/", "-"}
KeyStrings == UNION {[1..n -> KeyChars] : n \in 0..MaxKeyLen}

\* str::replace('/', "-")
replace_slash(string) ==
    [i \in 1..Len(string) |-> IF string[i] = "/" THEN "-" ELSE string[i]]

\* format!("cooldown-github-{repo_token}-{entity_id}")
github_cooldown_key(repo, entity_id) ==
    LET repo_token == replace_slash(repo)
    IN  <<"c", "o", "o", "l", "d", "o", "w", "n", "-", "g", "i", "t", "h", "u", "b", "-">>
            \o repo_token \o <<"-">> \o entity_id

\* format!("cooldown-linear-{team_key}-{entity_id}")
linear_cooldown_key(team_key, entity_id) ==
    <<"c", "o", "o", "l", "d", "o", "w", "n", "-", "l", "i", "n", "e", "a", "r", "-">>
        \o team_key \o <<"-">> \o entity_id

\* the keys of the two pairs, as github_hook and linear_hook build them
CooldownKeys ==
    /\ fn_args.fn = "keys"
    /\ fn_result = NoResult
    /\ fn_result' = [fn |-> "keys",
                     github1 |-> github_cooldown_key(fn_args.first1, fn_args.second1),
                     github2 |-> github_cooldown_key(fn_args.first2, fn_args.second2),
                     linear1 |-> linear_cooldown_key(fn_args.first1, fn_args.second1),
                     linear2 |-> linear_cooldown_key(fn_args.first2, fn_args.second2)]
    /\ UNCHANGED fn_args
    /\ UNCHANGED <<relay_vars, idem_vars, classify_vars, consumer_vars, hook_vars, ready_vars, limiter_vars, publisher_vars>>

\* two (repo or team key, entity id) pairs, every string of up to MaxKeyLen characters
InitKeys ==
    /\ fn_args \in [fn : {"keys"}, first1 : KeyStrings, second1 : KeyStrings, first2 : KeyStrings, second2 : KeyStrings]
    /\ fn_result = NoResult
    \* not exercised
    /\ kc_max_retries = 0
    /\ kc_pc = "recv"
    /\ kc_offset = 0
    /\ kc_attempt = 0
    /\ kc_committed = 0
    /\ kc_forwarded = {}
    /\ kc_forwards = EmptyTable
    /\ kc_dlq_topic = EmptyTable
    /\ kc_commit_calls = {}
    /\ kc_errors = EmptyTable
    /\ gateway = Status(200)
    /\ outcome_embedded = "none"
    /\ outcome_consumer = "none"
    /\ pending_events = EmptyTable
    /\ dlq_events = EmptyTable
    /\ dedup_index = EmptyTable
    /\ cooldown_index = EmptyTable
    /\ now = 0
    /\ forward_max_attempts = 0
    /\ worker_pc = "wait"
    /\ inflight = NoEvent
    /\ forwarded_total = [s \in Sources |-> 0]
    /\ dropped_total = [l \in Routes \X DropReasons |-> 0]
    /\ next_event_id = 1
    /\ delivered = {}
    /\ hist = EmptyTable
    /\ replays = 0
    /\ dedup_expirations = EmptyTable
    /\ cooldown_expirations = EmptyTable
    /\ side_dedup_index = EmptyTable
    /\ side_cooldown_index = EmptyTable
    /\ side_pending = EmptyTable
    /\ call = NoCall
    /\ calls = 0
    /\ passes = [st \in {"enqueue", "check"} |-> [k \in CallDedupKeys |-> -1]]
    /\ admits = [st \in {"enqueue", "check"} |-> [k \in {"c1", "c2"} |-> {}]]
    /\ monotone = TRUE
    /\ cooled = [st \in {"enqueue", "check"} |-> {}]
    /\ prev_cooled = [st \in {"enqueue", "check"} |-> FALSE]
    /\ threads = <<>>
    /\ locks = [dedup |-> TRUE, cooldown |-> TRUE]
    /\ aligned = TRUE
    /\ last_hook = NoHook
    /\ enqueued = EmptyTable
    /\ admin_token = None
    /\ last_admin = NoAdmin
    /\ shutdown = FALSE
    /\ last_ready = NoReady
    /\ at_shutdown = NoShutdown
    /\ limit_per_minute = 0
    /\ windows = EmptyTable
    /\ last_allow = NoAllow
    /\ allowed_in = NoneAllowed
    /\ ordered = TRUE
    /\ max_retries = 0
    /\ backoff_base_ms = 0
    /\ backoff_max_ms = 0
    /\ pub_pc = "recv"
    /\ pub_job = 0
    /\ attempt = 0
    /\ slept = <<>>
    /\ published = EmptyTable
    /\ logged = {}

NextKeys == CooldownKeys

SpecKeys == InitKeys /\ [][NextKeys]_vars

(***************************************************************************)
(* Properties.                                                             *)
(***************************************************************************)
Stores == {"enqueue", "check"}
Abs(x) == IF x >= 0 THEN x ELSE 0 - x

InPending(id) == id \in DOMAIN pending_events
InFlight(id) == inflight.event_id = id
InDlq(id) == id \in DOMAIN dlq_events
Delivered(id) == id \in delivered
\* the ids for which enqueue_pending_event returned Enqueued
Enqueued == DOMAIN hist

\* C1: with non-decreasing `now`, once a call with a non-empty dedup key k
\* got past the dedup stage at t1, a later call with k at t2, t2 - t1 <
\* dedup_ttl, returns Duplicate, in RelayStore::enqueue_pending_event and
\* in IdempotencyStore::check, whatever calls happened in between.
C1_DuplicateWithinTtl ==
    \A st \in Stores :
        ( /\ monotone
          /\ call.dedup_key # ""
          /\ call[st] # "none"
          /\ call.prev_pass[st] >= 0
          /\ call.now - call.prev_pass[st] < dedup_ttl_seconds )
        => call[st] = "Duplicate"

\* a third call repeats a key recorded earlier, in the last second of its TTL
C1_Witness ==
    /\ monotone
    /\ calls = 3
    /\ call.dedup_key # ""
    /\ call.prev_pass["enqueue"] >= 0
    /\ call.prev_pass["check"] >= 0
    /\ call.now - call.prev_pass["enqueue"] = dedup_ttl_seconds - 1
    /\ call.now - call.prev_pass["check"] = dedup_ttl_seconds - 1
    /\ call.enqueue = "Duplicate"
    /\ call.check = "Duplicate"

\* C2 as stated: among the calls that return Enqueued / Accept with the same
\* non-empty cooldown key, any two are at least cooldown_ttl apart, whatever
\* their dedup keys.
C2_OneAdmitPerWindow ==
    \A st \in Stores :
        (Admitted(call[st]) /\ call.cooldown_key.some /\ call.cooldown_key.key # "")
        => \A a \in call.prev_admits[st] :
               Abs(call.now - a.at) >= cooldown_seconds

\* C2 amended: the enqueue calls that return Enqueued with the same non-empty
\* cooldown key are pairwise at least cooldown_ttl apart, whatever their
\* dedup keys and the order of their `now`; the check calls that return
\* Accept with the same non-empty cooldown key are so when their dedup keys
\* are non-empty and `now` is non-decreasing over the calls.
C2_OneAdmitPerWindowKeyed ==
    /\ (Admitted(call.enqueue) /\ call.cooldown_key.some /\ call.cooldown_key.key # "")
       => \A a \in call.prev_admits["enqueue"] :
              Abs(call.now - a.at) >= cooldown_seconds
    /\ ( /\ monotone
         /\ call.dedup_key # ""
         /\ Admitted(call.check)
         /\ call.cooldown_key.some
         /\ call.cooldown_key.key # "" )
       => \A a \in call.prev_admits["check"] :
              a.keyed => call.now - a.at >= cooldown_seconds

\* a second event of the entity is admitted exactly cooldown_ttl after the first
C2_Witness ==
    /\ monotone
    /\ call.dedup_key # ""
    /\ call.cooldown_key.some
    /\ Admitted(call.enqueue)
    /\ Admitted(call.check)
    /\ \E a \in call.prev_admits["check"] :
           a.keyed /\ call.now - a.at = cooldown_seconds
    /\ \E a \in call.prev_admits["enqueue"] : call.now - a.at = cooldown_seconds

\* the places an Enqueued event can be in
Places(id) ==
    {p \in {"pending", "inflight", "dlq", "delivered"} :
        \/ p = "pending" /\ InPending(id)
        \/ p = "inflight" /\ InFlight(id)
        \/ p = "dlq" /\ InDlq(id)
        \/ p = "delivered" /\ Delivered(id)}

\* C3 as stated: in every reachable state, under any interleaving of ingress
\* enqueue, worker pop / requeue / move_to_dlq and admin replay, every event
\* id that was Enqueued is in exactly one of: the pending table, in flight at
\* the worker, the DLQ table, deleted after a successful forward; an id that
\* was not Enqueued is in none.
C3_ExactlyOnePlace ==
    /\ \A id \in Enqueued : Cardinality(Places(id)) = 1
    /\ \A id \in EventIds \ Enqueued : Places(id) = {}

\* C4 as stated: an Enqueued event leaves the pending table for good only by
\* a successful forward or by being written to the DLQ table, also when
\* requeue_event or move_to_dlq returns an error and when the process stops
\* between pop_due_event and the recording of the outcome.
C4_NeverLost ==
    \A id \in Enqueued :
        InPending(id) \/ InFlight(id) \/ InDlq(id) \/ Delivered(id)

Terminal(id) == InDlq(id) \/ Delivered(id)

\* C5: while the store operations succeed, the worker keeps running and the
\* gateway answers, every event that is pending or in flight eventually is
\* deleted after a successful forward or is in the DLQ table.
C5_EventuallyTerminal ==
    \A id \in EventIds : (InPending(id) \/ InFlight(id)) ~> Terminal(id)

\* an event reached the DLQ after being requeued and retried
C5_Witness ==
    \E id \in Enqueued :
        /\ InDlq(id)
        /\ dlq_events[id].pending_event.attempts >= 2
        /\ dlq_events[id].failed_at_epoch
             > dlq_events[id].pending_event.created_at_epoch

\* C6 as stated: every event in the pending table or in the DLQ table has
\* attempts <= forward_max_attempts, for every value of forward_max_attempts
\* the configuration accepts.
C6_AttemptsWithinMax ==
    /\ \A id \in DOMAIN pending_events :
           pending_events[id].attempts <= forward_max_attempts
    /\ \A id \in DOMAIN dlq_events :
           dlq_events[id].pending_event.attempts <= forward_max_attempts

\* C7 as stated: an event whose forwards (since its enqueue or last replay)
\* were all answered with a transient failure is forwarded exactly
\* forward_max_attempts times; after the last of them it is in the DLQ table
\* with failure_reason "forward_failed", not in the pending table, and
\* dropped_total{reason="forward_failed"} was incremented once for it.
C7_ExhaustedAfterMaxAttempts ==
    \A id \in Enqueued :
        hist[id].transient_only =>
            /\ hist[id].forwards <= forward_max_attempts
            /\ InDlq(id) =>
                   /\ hist[id].forwards = forward_max_attempts
                   /\ dlq_events[id].failure_reason = "forward_failed"
                   /\ ~InPending(id)
                   /\ hist[id].dropped = 1
            /\ (hist[id].forwards = forward_max_attempts /\ hist[id].forwards > 0)
                   => InDlq(id)

C9_Classification ==
    outcome_embedded # "none" =>
        /\ outcome_embedded \in {"Success", "Transient", "Permanent"}
        /\ gateway.kind = "status" =>
               /\ (gateway.code \in 200..299) <=> (outcome_embedded = "Success")
               /\ (gateway.code \in 500..599 \/ gateway.code = 429)
                      <=> (outcome_embedded = "Transient")
               /\ (gateway.code \in 400..499 /\ gateway.code # 429)
                      => (outcome_embedded = "Permanent")
        /\ gateway.kind = "error" =>
               /\ (gateway.is_connect \/ gateway.is_timeout \/ gateway.is_request)
                      <=> (outcome_embedded = "Transient")
               /\ ~(gateway.is_connect \/ gateway.is_timeout \/ gateway.is_request)
                      <=> (outcome_embedded = "Permanent")
        /\ outcome_consumer =
               (CASE outcome_embedded = "Success" -> "Ok"
                  [] outcome_embedded = "Transient" -> "Retryable"
                  [] OTHER -> outcome_embedded)

\* the gateway answers 429 Too Many Requests
C9_Witness ==
    /\ gateway = Status(429)
    /\ outcome_embedded = "Transient"
    /\ outcome_consumer = "Retryable"

\* the rows of the pending table that are due
Due == {id \in DOMAIN pending_events :
            pending_events[id].next_retry_at_epoch <= now}

\* C10: a step of pop_due_event(now) hands out an event only if its
\* next_retry_at_epoch <= now, removes exactly that row from the pending
\* table in the same step, and returns None, leaving the table unchanged,
\* exactly when no pending event is due.
C10_PopDue ==
    [][ (worker_pc = "pop" /\ worker_pc' # "pop") =>
            IF Due = {}
            THEN /\ inflight' = NoEvent
                 /\ pending_events' = pending_events
            ELSE /\ inflight'.event_id \in Due
                 /\ inflight' = pending_events[inflight'.event_id]
                 /\ DOMAIN pending_events' = DOMAIN pending_events \ {inflight'.event_id}
                 /\ \A id \in DOMAIN pending_events' :
                        pending_events'[id] = pending_events[id]
      ]_vars

\* an event was popped while another one, requeued with a backoff, is not due
C10_Witness ==
    /\ worker_pc = "process"
    /\ inflight.event_id # 0
    /\ inflight.next_retry_at_epoch <= now
    /\ \E id \in DOMAIN pending_events :
           /\ pending_events[id].next_retry_at_epoch > now
           /\ pending_events[id].attempts = 1

\* the step of process_pending_event for the event in flight
ProcessStep == worker_pc = "process" /\ worker_pc' = "pop"

\* min(initial_backoff * 2^(n-1), max_backoff)
BackoffOf(n) ==
    Min(forward_initial_backoff_seconds * Pow2(n - 1), forward_max_backoff_seconds)

ReplayNow(id) == replay_dlq_event(id, now, dlq_events, pending_events)

\* what replay_dlq_event returns and writes, in every state, for every id
ReplayEffect ==
    \A id \in EventIds :
        LET r == ReplayNow(id)
        IN  IF id \in DOMAIN dlq_events
            THEN /\ r.replayed
                 /\ DOMAIN r.dlq = DOMAIN dlq_events \ {id}
                 /\ \A x \in DOMAIN r.dlq : r.dlq[x] = dlq_events[x]
                 /\ DOMAIN r.pending = DOMAIN pending_events \cup {id}
                 /\ r.pending[id] =
                        [dlq_events[id].pending_event EXCEPT
                            !.attempts = 0, !.next_retry_at_epoch = now]
                 /\ \A x \in DOMAIN pending_events \ {id} :
                        r.pending[x] = pending_events[x]
            ELSE /\ ~r.replayed
                 /\ r.dlq = dlq_events
                 /\ r.pending = pending_events

\* an admin replay that returned true: both tables are as replay_dlq_event
\* leaves them, and the indexes and the event in flight are untouched
ReplayStep ==
    replays' # replays =>
        /\ \E id \in DOMAIN dlq_events :
               /\ dlq_events' = ReplayNow(id).dlq
               /\ pending_events' = ReplayNow(id).pending
        /\ dedup_index' = dedup_index
        /\ cooldown_index' = cooldown_index
        /\ inflight' = inflight

\* C12: replay_dlq_event(id, now) for an id in the DLQ returns true, removes
\* the DLQ row and inserts the event into pending with attempts = 0 and
\* next_retry_at_epoch = now, in one step, leaving the dedup and cooldown
\* indexes and all other rows unchanged; for an id not in the DLQ it returns
\* false and changes nothing.
C12_Replay == []ReplayEffect /\ [][ReplayStep]_vars

\* a replayed event is pending again, while another row stays in the DLQ
C12_Witness ==
    /\ replays = 1
    /\ DOMAIN dlq_events # {}
    /\ \E id \in DOMAIN pending_events :
           /\ pending_events[id].attempts = 0
           /\ pending_events[id].next_retry_at_epoch = now
           /\ pending_events[id].created_at_epoch < now
           /\ hist[id] = NewHist
           /\ dedup_index[pending_events[id].dedup_key] =
                  pending_events[id].created_at_epoch + dedup_retention_seconds

\* C13 as stated: every PendingEvent in the pending table or inside a DLQ row
\* has next_retry_at_epoch >= created_at_epoch, as built by the ingress
\* handlers, after every requeue and after every replay.
C13_RetryNotBeforeCreated ==
    /\ \A id \in DOMAIN pending_events :
           pending_events[id].next_retry_at_epoch
               >= pending_events[id].created_at_epoch
    /\ \A id \in DOMAIN dlq_events :
           dlq_events[id].pending_event.next_retry_at_epoch
               >= dlq_events[id].pending_event.created_at_epoch

\* the last call's dedup key was never recorded by the store st, or its
\* entry is dedup_ttl old or older
DedupOpen(st) ==
    \/ call.prev_pass[st] = -1
    \/ call.now >= call.prev_pass[st] + dedup_ttl_seconds

\* every call admitted by st with the last call's cooldown key is
\* cooldown_ttl old or older
CooldownOpen(st) ==
    \A a \in call.prev_admits[st] : call.now >= a.at + cooldown_seconds

\* C14 as stated: with non-decreasing now, a call with a dedup key recorded
\* at t1, made at t1 + dedup_ttl or later, is accepted (Accept / Enqueued);
\* and a call with a new dedup key and a cooldown key last admitted at t1,
\* made at t1 + cooldown_ttl or later, is accepted.
C14_AcceptedAfterTtl ==
    \A st \in Stores :
        (monotone /\ call[st] # "none") =>
            /\ ( /\ call.dedup_key # ""
                 /\ call.prev_pass[st] >= 0
                 /\ call.now >= call.prev_pass[st] + dedup_ttl_seconds )
                 => Admitted(call[st])
            /\ ( /\ call.prev_pass[st] = -1
                 /\ call.cooldown_key.some
                 /\ call.prev_admits[st] # {}
                 /\ CooldownOpen(st) )
                 => Admitted(call[st])

\* C14 amended: with non-decreasing now, a call with a dedup key recorded at
\* t1, made at t1 + dedup_ttl or later, is not rejected as Duplicate; and a
\* call whose dedup key is new or dedup_ttl old and whose cooldown key was
\* last admitted cooldown_ttl ago or earlier (calls rejected in between do
\* not count) is accepted.
C14_ExpiryAtTtl ==
    \A st \in Stores :
        (monotone /\ call[st] # "none") =>
            /\ ( /\ call.dedup_key # ""
                 /\ call.prev_pass[st] >= 0
                 /\ call.now >= call.prev_pass[st] + dedup_ttl_seconds )
                 => call[st] # "Duplicate"
            /\ (DedupOpen(st) /\ CooldownOpen(st)) => Admitted(call[st])

\* d1 is admitted at t, d2 gets Cooldown in between, d3 is admitted at
\* exactly t + cooldown_ttl, by both stores
C14_Witness ==
    /\ monotone
    /\ calls = 3
    /\ call.cooldown_key = Some("c1")
    /\ \A st \in Stores :
           /\ Admitted(call[st])
           /\ call.prev_pass[st] = -1
           /\ call.prev_admits[st] =
                  {[at |-> call.now - cooldown_seconds, keyed |-> TRUE]}
           /\ admits[st]["c2"] = {}
           /\ \E k \in CallDedupKeys \ {"", call.dedup_key} :
                  /\ passes[st][k] > call.now - cooldown_seconds
                  /\ passes[st][k] < call.now

\* C15: the offset of a consumed message is committed only after the message
\* was forwarded successfully or its DLQ envelope was published: every offset
\* below the committed position of the partition has one of the two.
C15_CommittedAfterOutcome ==
    \A m \in Offsets :
        m < kc_committed => m \in kc_forwarded \/ m \in DOMAIN kc_dlq_topic

\* C16: run side by side on the same calls with non-decreasing `now`,
\* enqueue_pending_event and check return corresponding results at every
\* step, for all keys, the empty ones included, and the store holds the row
\* of the call exactly when its result is Enqueued.
Corresponds(enqueue_result, check_result) ==
    \/ enqueue_result = "Enqueued" /\ check_result = "Accept"
    \/ enqueue_result = "Duplicate" /\ check_result = "Duplicate"
    \/ enqueue_result = "Cooldown" /\ check_result = "Cooldown"

C16_SameDecision ==
    (call.enqueue # "none" /\ monotone /\ aligned) =>
        /\ Corresponds(call.enqueue, call.check)
        /\ calls \in DOMAIN side_pending <=> call.enqueue = "Enqueued"

\* C17: move_to_dlq writes only the DLQ row {event, reason, failed_at = now,
\* replay_count = 0} and leaves the dedup and cooldown indexes unchanged; so
\* a delivery whose dedup key is that of an earlier Enqueued event, arriving
\* before the dedup retention has elapsed since that enqueue, is answered
\* Duplicate, whatever happened to the event in between (moved to the DLQ,
\* replayed, forwarded).
MoveToDlqStep == ProcessStep /\ dlq_events' # dlq_events

MoveToDlqFrame ==
    MoveToDlqStep =>
        /\ \E reason \in DropReasons,
              event \in {inflight, [inflight EXCEPT !.attempts = @ + 1]} :
               dlq_events' = Put(dlq_events, inflight.event_id,
                                 [pending_event |-> event,
                                  failure_reason |-> reason,
                                  failed_at_epoch |-> now,
                                  replay_count |-> 0])
        /\ dedup_index' = dedup_index
        /\ cooldown_index' = cooldown_index
        /\ pending_events' = pending_events

\* the last delivery reached enqueue_pending_event with the dedup key of the
\* Enqueued event id, before the retention elapsed since that enqueue
Redelivery(id) ==
    /\ last_hook.event_id > id
    /\ last_hook.status # 500
    /\ dedup_key_of(last_hook.source, last_hook.request.delivery) = enqueued[id].dedup_key
    /\ last_hook.at < enqueued[id].enqueued_at + dedup_retention_seconds

RedeliveryIsDuplicate ==
    \A id \in DOMAIN enqueued :
        Redelivery(id) =>
            /\ last_hook.status = 202
            /\ last_hook.body = "duplicate_delivery"

C17_DlqKeepsDedup == []RedeliveryIsDuplicate /\ [][MoveToDlqFrame]_vars

\* the only Enqueued event was moved to the DLQ, replayed and forwarded,
\* and then its delivery came again
C17_Witness ==
    /\ replays = 1
    /\ DOMAIN enqueued = {1}
    /\ 1 \in last_hook.delivered
    /\ Redelivery(1)

\* a webhook request was handled in this step
HookDone == last_hook'.seq = last_hook.seq + 1

\* the request is correctly signed (and, for Linear, inside the timestamp
\* window) and well-formed: JSON body, delivery id, event header, action
Authentic(h) ==
    /\ h.request.signature = "valid"
    /\ h.source = "linear" => h.request.timestamp_ok
WellFormed(h) ==
    /\ h.request.json
    /\ h.request.delivery # ""
    /\ h.request.action
    /\ h.source = "github" => h.request.event_header

\* the policy reasons that apply to the request: by what it carries, and by
\* the dedup and cooldown indexes as they are when it arrives
RequestPolicy(h) ==
    (IF ~h.request.supported THEN {"filtered"} ELSE {})
    \cup (IF h.source = "github" /\ h.request.bot_sender THEN {"bot_sender"} ELSE {})
    \cup (IF h.source = "linear" /\ h.request.agent_user THEN {"agent_user"} ELSE {})
StorePolicy(h) ==
    LET key == dedup_key_of(h.source, h.request.delivery)
        ckey == cooldown_key_of(h.source)
    IN  IF ~h.store_ok THEN {}
        ELSE IF key \in DOMAIN dedup_index /\ dedup_index[key] > h.at
        THEN {"duplicate_delivery"}
        ELSE IF ckey \in DOMAIN cooldown_index /\ cooldown_index[ckey] > h.at
        THEN {"cooldown"}
        ELSE {}

\* C18: a correctly signed, well-formed webhook that is dropped by policy
\* (duplicate delivery, cooldown, filtered, bot sender, agent user) is
\* answered 202 with the reason in the body, and dropped_total{source,reason}
\* is incremented once, for that reason, and no other counter moves.
PolicyDropAnswer ==
    LET h == last_hook'
        reasons == RequestPolicy(h) \cup StorePolicy(h)
    IN  (HookDone /\ Authentic(h) /\ WellFormed(h) /\ reasons # {}) =>
            /\ h.status = 202
            /\ h.body \in reasons
            /\ dropped_total' = inc(dropped_total, <<h.source, h.body>>)

C18_PolicyDrop202 == [][PolicyDropAnswer]_vars

\* a Linear delivery was enqueued and the next one, for the same entity, was
\* dropped for cooldown
C18_Witness ==
    /\ last_hook.status = 202
    /\ last_hook.body = "cooldown"
    /\ Authentic(last_hook) /\ WellFormed(last_hook)
    /\ last_hook.source = "linear"
    /\ dropped_total[<<"linear", "cooldown">>] = 1
    /\ last_hook.event_id = 2
    /\ DOMAIN pending_events = {1}

\* C19: a webhook with a missing or an invalid signature is answered 401,
\* increments dropped_total{reason="invalid_signature"} once and no other
\* counter, and leaves the pending table and the dedup and cooldown indexes
\* unchanged, whatever else it carries.
BadSignatureAnswer ==
    (HookDone /\ last_hook'.request.signature # "valid") =>
        /\ last_hook'.status = 401
        /\ dropped_total' = inc(dropped_total, <<last_hook'.source, "invalid_signature">>)
        /\ pending_events' = pending_events
        /\ dedup_index' = dedup_index
        /\ cooldown_index' = cooldown_index
        /\ enqueued' = enqueued

C19_BadSignature401 == [][BadSignatureAnswer]_vars

\* an unsigned request with a body that is not JSON was answered 401 while
\* an event was pending
C19_Witness ==
    /\ last_hook.request.signature = "missing"
    /\ ~last_hook.request.json
    /\ last_hook.status = 401
    /\ dropped_total[<<last_hook.source, "invalid_signature">>] = 1
    /\ pending_events # EmptyTable

\* C20: GET /ready answers 200 only when the worker task is alive and both
\* counts were read; it answers 503 whenever the worker is not alive and
\* whenever a count cannot be read.
C20_ReadyOnlyWhenAlive ==
    last_ready.status # 0 =>
        (last_ready.status = 200 <=>
            /\ last_ready.worker_alive
            /\ last_ready.pending_read
            /\ last_ready.dlq_read)

\* C21: on graceful shutdown the worker drains: once it has stopped, none of
\* the events that were due in the pending table at the shutdown signal is
\* still there, unless time has passed since the signal (a deadline).
C21_DrainsOnShutdown ==
    (worker_pc = "stopped" /\ now = at_shutdown.at) =>
        at_shutdown.due \cap DOMAIN pending_events = {}

\* C22 as stated: for every source and every minute floor(now/60), at most
\* limit_per_minute calls of allow return true, in any sequence of calls.
C22_AtMostLimitPerMinute ==
    \A w \in Routes \X Minutes : allowed_in[w] <= limit_per_minute

\* what a call of allow did to the counter of its source, told by the calls
\* answered before it
AllowAnswer ==
    last_allow'.seq # last_allow.seq =>
        LET source == last_allow'.source
            minute == MinuteOf(last_allow'.now_epoch)
            before == IF source \in DOMAIN windows THEN windows[source].count ELSE 0
        IN  /\ ordered' =>
                /\ last_allow'.result = FALSE <=>
                       allowed_in[<<source, minute>>] = limit_per_minute
                /\ (source \in DOMAIN windows
                        /\ windows[source].minute_bucket # minute) =>
                       windows'[source].count = IF last_allow'.result THEN 1 ELSE 0
            /\ last_allow'.result = FALSE => windows'[source].count = before
            /\ \A other \in Routes \ {source} :
                   /\ other \in DOMAIN windows' <=> other \in DOMAIN windows
                   /\ other \in DOMAIN windows => windows'[other] = windows[other]

\* C22, for calls whose times do not decrease and are not before the epoch:
\* at most limit_per_minute calls return true per source and minute; a call
\* returns false exactly when the source's counter for the current minute
\* equals the limit, and leaves the counter unchanged; the first call in a
\* different minute resets the counter to zero; a call leaves the windows
\* of the other sources alone.
C22_LimiterOrdered ==
    /\ [](ordered => C22_AtMostLimitPerMinute)
    /\ [][AllowAnswer]_vars

\* the limit was reached in minute 1, a call was refused there, and the
\* first call of minute 2 was allowed again; the other source has its own window
C22_Witness ==
    /\ ordered
    /\ limit_per_minute = 1
    /\ allowed_in[<<"github", 1>>] = 1
    /\ allowed_in[<<"github", 2>>] = 1
    /\ allowed_in[<<"linear", 1>>] = 1
    /\ last_allow.seq = 4
    /\ last_allow.result

\* the closed form of the backoff: min(base * 2^min(exponent, 31), max),
\* the product stopping at the u64 maximum
BackoffClosedForm(base, max, exponent) ==
    LET product == base * Pow2(IF exponent < MaxExponent THEN exponent ELSE MaxExponent)
        saturated == IF product > U64Max THEN U64Max ELSE product
    IN  IF saturated < max THEN saturated ELSE max

\* what the functions returned for the attempt index just tried
BackoffValues ==
    fn_result.fn = "backoff" =>
        LET i == fn_result.attempt_index
        IN  /\ fn_result.retry_backoff_ms = BackoffClosedForm(fn_args.base, fn_args.max, i)
            /\ fn_result.retry_backoff_seconds = BackoffClosedForm(fn_args.base, fn_args.max, i)
            /\ fn_result.compute_backoff_seconds =
                   BackoffClosedForm(fn_args.base, fn_args.max, IF i >= 1 THEN i - 1 ELSE 0)
            /\ fn_result.retry_backoff_ms <= fn_args.max
            /\ fn_result.retry_backoff_seconds <= fn_args.max
            /\ fn_result.compute_backoff_seconds <= fn_args.max

\* from one attempt index to the next no function returns less
BackoffGrows ==
    (fn_result.fn = "backoff" /\ fn_result'.fn = "backoff") =>
        /\ fn_result'.retry_backoff_ms >= fn_result.retry_backoff_ms
        /\ fn_result'.retry_backoff_seconds >= fn_result.retry_backoff_seconds
        /\ fn_result'.compute_backoff_seconds >= fn_result.compute_backoff_seconds

\* C23: compute_backoff_seconds(initial, max, attempts) is
\* min(initial * 2^min(attempts-1, 31), max) (attempts - 1 stopping at 0),
\* retry_backoff_ms and retry_backoff_seconds(base, max, i) are
\* min(base * 2^min(i, 31), max), the product saturating at the u64 maximum;
\* each is non-decreasing in the attempt index and never above max.
C23_Backoff == []BackoffValues /\ [][BackoffGrows]_vars

\* the product base * 2^i passed the u64 maximum and the exponent its cap:
\* the functions return the saturated value, which max does not cut
C23_Witness ==
    /\ fn_result.fn = "backoff"
    /\ fn_result.attempt_index > MaxExponent
    /\ fn_args.base * Pow2(MaxExponent) > U64Max
    /\ fn_args.max = U64Max
    /\ fn_result.retry_backoff_seconds = U64Max
    /\ fn_result.compute_backoff_seconds = U64Max

\* the seconds a webhookTimestamp field stands for, where it has any
TimestampSeconds(field) ==
    IF field.raw > MillisThreshold THEN field.raw \div MillisPerSecond ELSE field.raw

\* C24: verify_linear_timestamp_window returns true whenever enforce is
\* false; when enforce is true it returns true if and only if
\* webhookTimestamp is present and parseable (integer or numeric string, a
\* value above the threshold taken as milliseconds) and |now - ts| <= window,
\* and false otherwise.
C24_TimestampWindow ==
    fn_result.fn = "timestamp" =>
        LET field == fn_args.field
            distance == fn_args.now_epoch - TimestampSeconds(field)
            fresh == /\ field.kind \in {"integer", "numeric"}
                     /\ distance <= fn_args.window_seconds
                     /\ 0 - distance <= fn_args.window_seconds
        IN  fn_result.value =
                IF ~fn_args.enforce_check \/ fresh THEN "true" ELSE "false"

\* C25: every envelope on the DLQ topic belongs to an event that actually
\* failed: at least one forward attempt was made for it, and its last
\* attempt failed permanently or exhausted the transient retries, for every
\* accepted value of the retry limit.
C25_DlqEntryFailed ==
    \A m \in DOMAIN kc_dlq_topic :
        /\ kc_forwards[m] >= 1
        /\ kc_dlq_topic[m] \in {"Permanent", "Retryable"}

\* C26 as stated: publish returns an error after at most max_retries failed
\* sends.
C26_AtMostMaxRetries ==
    /\ attempt <= max_retries
    /\ \A job \in DOMAIN published : published[job].failed <= max_retries

\* the sends publish makes at most: max_retries, and one where it is 0
PublishSends == IF max_retries >= 1 THEN max_retries ELSE 1

\* the failed sends are bounded, the sleeps follow the backoff, and the
\* worker logged exactly the jobs whose publish returned an error
PublishBounded ==
    /\ attempt <= PublishSends
    /\ pub_pc = "send" => Len(slept) = attempt /\ attempt < PublishSends
    /\ \A k \in 1..Len(slept) :
           slept[k] = BackoffClosedForm(backoff_base_ms, backoff_max_ms, k - 1)
    /\ \A job \in DOMAIN published :
           /\ published[job].returns = "Err" => published[job].failed = PublishSends
           /\ published[job].returns = "Ok" => published[job].failed < PublishSends
    /\ logged = {job \in DOMAIN published : published[job].returns = "Err"}

\* when publish returns, the worker is back at recv with the job settled
PublishReturns ==
    (pub_pc = "send" /\ pub_pc' = "recv") =>
        /\ pub_job \in DOMAIN published' \ DOMAIN published
        /\ published'[pub_job].returns = "Err" <=> pub_job \in logged'
        /\ attempt' <= PublishSends
        /\ UNCHANGED pub_job

\* C26, with the retry limit 0 counted as one send: publish returns Ok at
\* the first successful send, and otherwise an error after max(max_retries, 1)
\* failed sends, sleeping min(base_ms * 2^k, max_ms) after the k-th failed
\* send that is not the last (k from 0); after the error the worker logs
\* it, drops the envelope and goes on with the next job.
C26_PublishTerminates == []PublishBounded /\ [][PublishReturns]_vars

\* the first job failed max_retries = 3 times with two sleeps in between,
\* was logged, and the second job was published at its first send
C26_Witness ==
    /\ max_retries = 3
    /\ backoff_base_ms = 1
    /\ backoff_max_ms = U64Max
    /\ slept = <<>>
    /\ DOMAIN published = {1, 2}
    /\ published[1] = [returns |-> "Err", failed |-> 3]
    /\ published[2] = [returns |-> "Ok", failed |-> 0]
    /\ logged = {1}

\* the strings of a JSON value, each with the keys and indices that lead to it
RECURSIVE StringsAt(_)
StringsAt(value) ==
    IF value.type = "string" THEN {<< <<>>, value.text >>}
    ELSE IF value.type = "object"
    THEN UNION {{<< <<key>> \o e[1], e[2] >> : e \in StringsAt(value.fields[key])} :
                    key \in DOMAIN value.fields}
    ELSE IF value.type = "array"
    THEN UNION {{<< <<ToString(i - 1)>> \o e[1], e[2] >> : e \in StringsAt(value.items[i])} :
                    i \in DOMAIN value.items}
    ELSE {}

\* a JSON path in the notation of _flags: the segments joined by dots
RECURSIVE JsonPath(_)
JsonPath(segments) ==
    IF Len(segments) = 1 THEN segments[1]
    ELSE segments[1] \o "." \o JsonPath(Tail(segments))

Scanned(text) == text.bytes > ScanThreshold
Injected(text) == text.hits >= 1

\* the entries of the _flags array of a sanitized object
FlagsOf(object) ==
    IF "_flags" \in DOMAIN object.fields /\ object.fields["_flags"].type = "array"
    THEN object.fields["_flags"].items
    ELSE <<>>

\* C27: for every supported source and every JSON object payload,
\* sanitize_payload returns an object with _sanitized = true; every string
\* of the payload longer than 10 bytes that matches a pattern appears in
\* _flags exactly once, under its JSON path, and a string that matches no
\* pattern does not appear in _flags.
C27_FlagsEveryInjection ==
    (fn_result.fn = "sanitize" /\ fn_args.source \in {"github", "linear"}) =>
        /\ fn_result.value.ok
        /\ LET sanitized == fn_result.value.value
               flags == FlagsOf(sanitized)
               Entries(path) == {i \in DOMAIN flags : flags[i].field = path}
           IN  /\ sanitized.fields["_sanitized"] = JBool(TRUE)
               /\ \A e \in StringsAt(fn_args.payload) :
                      /\ (Scanned(e[2]) /\ Injected(e[2])) =>
                             Cardinality(Entries(JsonPath(e[1]))) = 1
                      /\ ~Injected(e[2]) => Entries(JsonPath(e[1])) = {}

\* C28: in annotate-only mode the output is the input payload unchanged
\* (every key, every nested value, arrays with their order and length) plus
\* the top-level field _sanitized = true and, if and only if a scanned
\* string has a hit, the top-level field _flags, whatever keys the payload
\* carries.
C28_AnnotateOnly ==
    (fn_result.fn = "sanitize" /\ fn_result.value.ok) =>
        LET input == fn_args.payload.fields
            output == fn_result.value.value.fields
            hit == \E e \in StringsAt(fn_args.payload) : Scanned(e[2]) /\ Injected(e[2])
        IN  /\ \A key \in DOMAIN input : key \in DOMAIN output /\ output[key] = input[key]
            /\ DOMAIN output \subseteq DOMAIN input \cup ReservedKeys
            /\ output["_sanitized"] = JBool(TRUE)
            /\ "_flags" \in DOMAIN output <=> hit

\* the header as the claim normalises it: the part between the first and
\* the last character that is not whitespace, without a leading "sha256=",
\* then without whitespace, in lower case
Normalised(header) ==
    LET inked == {i \in 1..Len(header) : header[i] # " "}
        first == IF inked = {} THEN 1 ELSE CHOOSE i \in inked : \A j \in inked : i <= j
        last == IF inked = {} THEN 0 ELSE CHOOSE i \in inked : \A j \in inked : i >= j
        prefixed == /\ last - first + 1 >= Len(SignaturePrefix)
                    /\ \A k \in 1..Len(SignaturePrefix) :
                           header[first + k - 1] = SignaturePrefix[k]
        from == IF prefixed THEN first + Len(SignaturePrefix) ELSE first
        kept == SelectSeq([k \in 1..(last - from + 1) |-> header[from + k - 1]],
                          LAMBDA c : c # " ")
    IN  [k \in 1..Len(kept) |->
            IF kept[k] = "A" THEN "a" ELSE IF kept[k] = "S" THEN "s" ELSE kept[k]]

\* C29: verify_github_signature and verify_linear_signature return true if
\* and only if the header, trimmed, stripped of a leading "sha256=", freed
\* of whitespace and lowercased, equals the hex HMAC-SHA256 of the body
\* under the secret; the prefixed and the bare form of the digest are both
\* accepted, and a normalised header of another length is rejected.
C29_SignatureNormalised ==
    fn_result.fn = "signature" =>
        LET digest == compute_hmac_sha256_hex(fn_args.secret, fn_args.payload)
        IN  /\ fn_result.github <=> Normalised(fn_args.header) = digest
            /\ fn_result.linear <=> Normalised(fn_args.header) = digest
            /\ fn_args.header = digest => fn_result.github /\ fn_result.linear
            /\ fn_args.header = SignaturePrefix \o digest =>
                   fn_result.github /\ fn_result.linear
            /\ Len(Normalised(fn_args.header)) # Len(digest) =>
                   ~fn_result.github /\ ~fn_result.linear

\* a header with whitespace before the prefix and the digest in upper case
\* is accepted
C29_Witness ==
    /\ fn_result.fn = "signature"
    /\ fn_args.secret = "k1"
    /\ fn_args.payload = "p1"
    /\ fn_args.header = <<" ", "s", "=", "A", "2">>
    /\ fn_result.github
    /\ fn_result.linear

\* the due rows with the smallest next_retry_at_epoch
Earliest ==
    {id \in Due : \A other \in Due :
        pending_events[id].next_retry_at_epoch
            <= pending_events[other].next_retry_at_epoch}

\* C30: when several pending events are due, a step of pop_due_event(now)
\* hands out one whose next_retry_at_epoch is the smallest among the due
\* events, among equals always the same one (the first in the table's key
\* order), and removes exactly that event from the pending table.
C30_PopsEarliest ==
    [][ (worker_pc = "pop" /\ worker_pc' # "pop" /\ ~shutdown /\ Due # {}) =>
            /\ inflight'.event_id \in Earliest
            /\ \A id \in Earliest : inflight'.event_id <= id
            /\ inflight' = pending_events[inflight'.event_id]
            /\ pending_events' =
                   [id \in DOMAIN pending_events \ {inflight'.event_id} |->
                        pending_events[id]]
      ]_vars

\* an event was popped while an event before it in key order, requeued with
\* a backoff, is due as well with a later next_retry_at_epoch
C30_Witness ==
    /\ worker_pc = "process"
    /\ inflight.event_id # 0
    /\ inflight.next_retry_at_epoch <= now
    /\ \E id \in DOMAIN pending_events :
           /\ id < inflight.event_id
           /\ pending_events[id].next_retry_at_epoch <= now
           /\ pending_events[id].next_retry_at_epoch > inflight.next_retry_at_epoch

\* the dedup table of a store
DedupTable(st) == IF st = "enqueue" THEN side_dedup_index ELSE dedup_expirations

\* the cooldown window that rejected a call has elapsed at the time of the
\* call at hand
CooldownElapsed(st) ==
    LET table == IF st = "enqueue" THEN side_cooldown_index ELSE cooldown_expirations
    IN  \A key \in DOMAIN table : table[key] <= call.now

\* C31: a call that returns Cooldown has recorded its dedup key with expiry
\* now + dedup_ttl, in enqueue_pending_event and in check, and with
\* non-decreasing `now` a later call with that key less than dedup_ttl
\* after it returns Duplicate, also when the cooldown window that rejected
\* the first call has elapsed: the re-delivery is not admitted.
C31_CooldownRecordsDedup ==
    \A st \in Stores :
        /\ call[st] = "Cooldown" =>
               /\ call.dedup_key \in DOMAIN DedupTable(st)
               /\ DedupTable(st)[call.dedup_key] = call.now + dedup_ttl_seconds
        /\ ( /\ monotone
             /\ call[st] # "none"
             /\ prev_cooled[st]
             /\ call.prev_pass[st] >= 0
             /\ call.now - call.prev_pass[st] < dedup_ttl_seconds )
           => /\ call[st] = "Duplicate"
              /\ ~Admitted(call[st])

\* a delivery rejected with Cooldown is delivered again after the cooldown
\* window has elapsed and within dedup_ttl: Duplicate in both stores
C31_Witness ==
    /\ monotone
    /\ calls = 3
    /\ \A st \in Stores :
           /\ prev_cooled[st]
           /\ call.prev_pass[st] >= 0
           /\ call.now - call.prev_pass[st] < dedup_ttl_seconds
           /\ CooldownElapsed(st)
           /\ call[st] = "Duplicate"

\* the request fails a check its handler makes before the enqueue: body
\* not JSON, a required header or the action missing, event or type not
\* supported, bot sender, agent user, timestamp outside the window
RejectedBeforeEnqueue(h) ==
    \/ ~WellFormed(h)
    \/ RequestPolicy(h) # {}
    \/ h.source = "linear" /\ ~h.request.timestamp_ok

\* C32: a webhook rejected before the enqueue step leaves the store
\* unchanged, it records no dedup key and starts no cooldown window; a
\* valid delivery that arrives when every request before it was rejected
\* that way is enqueued.
RejectedLeavesStore ==
    LET h == last_hook'
    IN  /\ (HookDone /\ RejectedBeforeEnqueue(h)) =>
               /\ pending_events' = pending_events
               /\ dlq_events' = dlq_events
               /\ dedup_index' = dedup_index
               /\ cooldown_index' = cooldown_index
               /\ h.body \notin {"enqueued", "duplicate_delivery", "cooldown"}
        /\ ( /\ HookDone
             /\ next_event_id = 1
             /\ Authentic(h) /\ ~RejectedBeforeEnqueue(h)
             /\ h.store_ok ) =>
               /\ h.body = "enqueued"
               /\ DOMAIN pending_events' = {1}

C32_RejectedLeavesStore == [][RejectedLeavesStore]_vars

\* a Linear request with a stale timestamp was rejected and the next
\* request, a valid Linear delivery, was enqueued
C32_Witness ==
    /\ last_hook.seq = 2
    /\ last_hook.source = "linear"
    /\ last_hook.body = "enqueued"
    /\ last_hook.event_id = 1
    /\ dropped_total[<<"linear", "invalid_timestamp">>] = 1
    /\ DOMAIN dedup_index = {dedup_key_of("linear", last_hook.request.delivery)}

\* the calls with dedup key k that got past the dedup stage, and the calls
\* with cooldown key c that returned Accept
PastDedupStage(k) == {t \in Threads : threads[t].dedup_key = k /\ threads[t].past}
Accepted(c) ==
    {t \in Threads : threads[t].cooldown_key = Some(c) /\ threads[t].result = "Accept"}

MessageErrors == {"kafka message missing payload",
                  "deserialize webhook envelope from kafka",
                  "publish dlq envelope"}

\* C35: when the payload of a message is missing or cannot be deserialized,
\* or its DLQ publish fails after a forwarding failure, process_message
\* returns the error without a commit for that message, and run goes on to
\* receive the next message; the DLQ publish is reached only after a
\* forwarding failure, and run is never at an end.
MessageErrorStep ==
    /\ kc_pc' \in {"recv", "forward"}
    /\ \A o \in Offsets :
        (o \notin DOMAIN kc_errors /\ o \in DOMAIN kc_errors'
            /\ kc_errors'[o] \in MessageErrors) =>
            /\ o = kc_offset
            /\ kc_commit_calls' = kc_commit_calls
            /\ o \notin kc_commit_calls'
            /\ kc_committed' = kc_committed
            /\ kc_pc' = "recv"
            /\ kc_offset' = o + 1
            /\ kc_errors'[o] = "publish dlq envelope" =>
                   /\ o \notin kc_forwarded'
                   /\ o \notin DOMAIN kc_dlq_topic'

C35_MessageErrorNoCommit == [][MessageErrorStep]_vars

\* the DLQ publish of message 0 failed after a forwarding failure, and the
\* consumer went on: message 1 was forwarded and committed
C35_Witness ==
    /\ 0 \in DOMAIN kc_errors
    /\ kc_errors[0] = "publish dlq envelope"
    /\ kc_forwards[0] >= 1
    /\ 0 \notin kc_commit_calls
    /\ 1 \in kc_forwarded
    /\ 1 \in kc_commit_calls
    /\ kc_pc = "recv"

\* C37: in every reachable state every row of the DLQ table has
\* replay_count = 0, however many times its event has been replayed and
\* has failed again.
C37_ReplayCountZero ==
    \A id \in DOMAIN dlq_events : dlq_events[id].replay_count = 0

\* the only event enqueued was moved to the DLQ, replayed, and moved to the
\* DLQ again after another failed forward
C37_Witness ==
    /\ DOMAIN hist = {1}
    /\ replays >= 1
    /\ 1 \in DOMAIN dlq_events
    /\ dlq_events[1].replay_count = 0
    /\ dlq_events[1].pending_event.attempts >= 1

\* C36: an enqueue_pending_event call that returns Duplicate leaves all
\* four tables unchanged: no pending row is inserted, the dedup expiry is
\* neither refreshed nor extended, the cooldown index is not modified.
DuplicateLeavesTables ==
    (HookDone /\ last_hook'.body = "duplicate_delivery") =>
        /\ pending_events' = pending_events
        /\ dlq_events' = dlq_events
        /\ dedup_index' = dedup_index
        /\ cooldown_index' = cooldown_index
        /\ last_hook'.event_id \notin DOMAIN pending_events'

C36_DuplicateLeavesTables == [][DuplicateLeavesTables]_vars

\* a delivery was answered duplicate_delivery one second or more after its
\* key was recorded, while the event of the first delivery was in the DLQ:
\* the dedup expiry is the one recorded first
C36_Witness ==
    /\ last_hook.body = "duplicate_delivery"
    /\ LET key == dedup_key_of(last_hook.source, last_hook.request.delivery)
           ckey == cooldown_key_of(last_hook.source)
       IN  /\ key \in DOMAIN dedup_index
           /\ dedup_index[key] < last_hook.at + dedup_retention_seconds
           /\ ckey \in DOMAIN cooldown_index
           /\ cooldown_index[ckey] = dedup_index[key]
           /\ DOMAIN dlq_events = {1}
           /\ pending_events = EmptyTable

\* the call at hand tried to lock the dedup map and failed; it locked the
\* dedup map, passed the dedup stage, tried to lock the cooldown map and
\* failed
DedupLockFailed == call.dedup_key # "" /\ ~locks.dedup
CooldownLockFailed ==
    /\ call.dedup_key # ""
    /\ locks.dedup
    /\ passes["check"][call.dedup_key] = call.now
    /\ call.check # "Duplicate"
    /\ call.cooldown_key.some
    /\ call.cooldown_key.key # ""
    /\ ~locks.cooldown

\* C38: when the lock of the dedup map cannot be acquired check returns
\* Duplicate, when the lock of the cooldown map cannot be acquired it
\* returns Cooldown: a lock failure never yields Accept.
C38_LockFailureRestrictive ==
    call.check # "none" =>
        /\ DedupLockFailed => call.check = "Duplicate"
        /\ CooldownLockFailed => call.check = "Cooldown"
        /\ (DedupLockFailed \/ CooldownLockFailed) => call.check # "Accept"

\* a call with a new dedup key and a cooldown key without a live entry
\* returned Cooldown because the cooldown map could not be locked
C38_Witness ==
    /\ CooldownLockFailed
    /\ call.check = "Cooldown"
    /\ call.cooldown_key.key \notin DOMAIN cooldown_expirations
    /\ call.dedup_key \in DOMAIN dedup_expirations

\* what the relay's store holds: the pending table, the DLQ and the two
\* idempotency tables
StoreTables == <<pending_events, dlq_events, dedup_index, cooldown_index>>

\* the admin token is set and the request carries exactly "Bearer <token>"
AdminAuthorised ==
    /\ admin_token.some
    /\ last_admin.header = "Bearer " \o admin_token.key

\* the answer of the last admin request follows from the token and the header
AdminAnswered ==
    last_admin.route # "none" =>
        /\ ~admin_token.some =>
               last_admin.status = 404 /\ last_admin.body = "admin endpoints disabled"
        /\ admin_token.some /\ ~AdminAuthorised =>
               last_admin.status = 401 /\ last_admin.body = "unauthorized"
        /\ AdminAuthorised => last_admin.body \notin {"admin endpoints disabled", "unauthorized"}

AdminGuarded ==
    /\ AdminAnswered'
    \* a refused request leaves the store as it was
    /\ last_admin' # last_admin /\ ~AdminAuthorised' => UNCHANGED StoreTables
    \* a row leaves the DLQ only in an authorised replay
    /\ DOMAIN dlq_events \ DOMAIN dlq_events' # {} =>
           AdminAuthorised' /\ last_admin'.route = "replay"

\* C39: the admin operations act only for requests whose Authorization
\* header equals "Bearer <admin token>": with no token configured every
\* admin route answers 404, with a missing or wrong bearer it answers 401,
\* and in both cases the store is unchanged and no row leaves the DLQ.
C39_AdminGuarded == [][AdminGuarded]_vars

\* a replay of a row that is in the DLQ was refused with 401, another was
\* refused with 404 on a relay without token
C39_Witness ==
    /\ last_admin.route = "replay"
    /\ last_admin.status \in {401, 404}
    /\ ~AdminAuthorised
    /\ dlq_events # EmptyTable
    /\ replays = 0

\* the two pairs name the same entity
SameEntity ==
    /\ fn_args.first1 = fn_args.first2
    /\ fn_args.second1 = fn_args.second2

\* C40: the cooldown key identifies the entity: github_cooldown_key of two
\* (repo, entity id) pairs is equal only if the repos are equal and the ids
\* are equal, and likewise linear_cooldown_key of two (team key, entity id)
\* pairs.
C40_CooldownKeyIdentifies ==
    fn_result.fn = "keys" =>
        /\ fn_result.github1 = fn_result.github2 => SameEntity
        /\ fn_result.linear1 = fn_result.linear2 => SameEntity

====
